---- MODULE Spec2Model ----
(***************************************************************************)
(* A model of the multi-pack index (midx.c) and of the sparse index        *)
(* (sparse-index.c).  Files are sequences of bytes; an offset o of the C   *)
(* code is the position o + 1 of the sequence.  64-bit offsets are kept as *)
(* sequences of 8 bytes, most significant byte first.                      *)
(***************************************************************************)
EXTENDS Integers, Sequences, FiniteSets, TLC

VARIABLES
    pack_names,     \* write_midx_file argument; sorted in place by the builder
    objects,        \* write_midx_file argument: the object entries
    midx_name,      \* write_midx_file argument: NoName, or the name to write to
    core_midx,      \* the core.midx configuration switch
    wpc,            \* position of the write_midx_file run
    w,              \* locals of the write_midx_file run
    fs,             \* the files of the pack directory: name -> bytes
    m,              \* the reader returned by load_midxed_git_one, or NoReader
    rpc,            \* outcome of the load_midxed_git_one call
    lk,             \* result of the last lookup made on the reader
    disk_packs,     \* the names of the packs present in the pack directory
    midx_head,      \* the hash the midx-head file names, or NoName
    corrupted,      \* the damage done to the MIDX file since it was built
    midxed_git,     \* the registry of readers, head first
    verify_midx_error,  \* the static flag of midx_report
    vres,           \* outcome of the last midx_verify call
    proc,           \* the reading process: "run", "die" or "crash"
    istate,         \* the index: entry array, entry count, flags, cache tree
    repo,           \* the sparse-checkout configuration and pattern file
    full0,          \* the entries of the index as first given
    sres,           \* outcome of the last sparse-index operation
    in_expand_to_path,  \* the static guard of expand_to_path
    xp,             \* the expand_to_path call that is running
    efi,            \* the ensure_full_index call that is running
    patterns,       \* the cone-mode pattern list built by sparse-checkout set
    sc              \* the sparse-checkout file, its lock, the index lock, the run

envVars == <<disk_packs, midx_head, corrupted>>
regVars == <<midxed_git, verify_midx_error, vres>>

callVars == <<in_expand_to_path, xp, efi>>
indexVars == <<istate, repo, full0, sres, callVars>>
midxVars == <<pack_names, objects, midx_name, core_midx, wpc, w, fs, m, rpc, lk, envVars, regVars, proc>>

coneVars == <<patterns, sc>>

vars == <<midxVars, indexVars, coneVars>>

----------------------------------------------------------------------------
(* Bounds of the model *)

MaxPacks == 2
MaxObjects == 2
MaxLines == 3

----------------------------------------------------------------------------
(* Bytes, words and strings *)

Byte == 0..255

Zeros(n) == [i \in 1..n |-> 0]

\* hashwrite_be32: the four bytes of a 32-bit value, most significant first
Be32(x) == <<(x \div 16777216) % 256, (x \div 65536) % 256, (x \div 256) % 256, x % 256>>

\* ntohl / get_be32 of four bytes whose value is below 2^31
U32(b) == ((b[1] * 256 + b[2]) * 256 + b[3]) * 256 + b[4]

\* the bytes data[off .. off + n) of a mapped file; past the end of the file the
\* last page of the map reads as zero
Bytes(data, off, n) ==
    IF off + n <= Len(data) THEN SubSeq(data, off + 1, off + n)
    ELSE [i \in 1..n |-> IF off + i <= Len(data) THEN data[off + i] ELSE 0]

\* memcmp / hashcmp / oidcmp of two byte strings of the same length: -1, 0, 1
RECURSIVE CmpFrom(_, _, _)
CmpFrom(a, b, i) ==
    IF i > Len(a) THEN 0
    ELSE IF a[i] < b[i] THEN -1
    ELSE IF a[i] > b[i] THEN 1
    ELSE CmpFrom(a, b, i + 1)

oidcmp(a, b) == CmpFrom(a, b, 1)

\* strcmp of two NUL-free strings (the shorter one ends in the NUL byte)
RECURSIVE StrCmpFrom(_, _, _)
StrCmpFrom(a, b, i) ==
    IF i > Len(a) /\ i > Len(b) THEN 0
    ELSE IF i > Len(a) THEN -1
    ELSE IF i > Len(b) THEN 1
    ELSE IF a[i] < b[i] THEN -1
    ELSE IF a[i] > b[i] THEN 1
    ELSE StrCmpFrom(a, b, i + 1)

strcmp(a, b) == StrCmpFrom(a, b, 1)

RECURSIVE Concat(_)
Concat(ss) == IF ss = <<>> THEN <<>> ELSE Head(ss) \o Concat(Tail(ss))

----------------------------------------------------------------------------
(* Program constants of midx.c *)

MIDX_SIGNATURE == <<77, 73, 68, 88>>
MIDX_VERSION == <<128, 0, 0, 1>>
MIDX_OID_VERSION == 1
MIDX_OID_LEN == 20
MIDX_CHUNKID_PACKLOOKUP == <<80, 76, 79, 79>>
MIDX_CHUNKID_PACKNAMES == <<80, 78, 65, 77>>
MIDX_CHUNKID_OIDFANOUT == <<79, 73, 68, 70>>
MIDX_CHUNKID_OIDLOOKUP == <<79, 73, 68, 76>>
MIDX_CHUNKID_OBJECTOFFSETS == <<79, 79, 70, 70>>
MIDX_CHUNKID_LARGEOFFSETS == <<76, 79, 70, 70>>
MIDX_CHUNKLOOKUP_WIDTH == 12
MIDX_CHUNK_FANOUT_SIZE == 1024
MIDX_CHUNK_OFFSET_WIDTH == 8
MIDX_CHUNK_LARGE_OFFSET_WIDTH == 8
MIDX_HEADER_SIZE == 16
GIT_MAX_RAWSZ == 20

----------------------------------------------------------------------------
(* 64-bit offsets as 8 bytes *)

\* offset >> 31 is nonzero, which is offset > 0x7fffffff for the offsets >= 0
Above31(off) == SubSeq(off, 1, 4) # Zeros(4) \/ off[5] >= 128

\* offset >> 32 is nonzero, which is offset > 0xffffffff
Above32(off) == SubSeq(off, 1, 4) # Zeros(4)

\* (uint32_t)offset
Low32(off) == SubSeq(off, 5, 8)

\* MIDX_LARGE_OFFSET_NEEDED | word
\* the word left as it is, without the MIDX_LARGE_OFFSET_NEEDED bit
OrHighBit_NoFlag(word) == word

OrHighBit(word) == <<IF word[1] >= 128 THEN word[1] ELSE word[1] + 128, word[2], word[3], word[4]>>

\* word ^ MIDX_LARGE_OFFSET_NEEDED, for a word with the high bit set
ClearHighBit(word) == <<word[1] - 128, word[2], word[3], word[4]>>

----------------------------------------------------------------------------
(* The inputs of the builder *)

NoName == <<>>
GivenName == [kind |-> "given", id |-> <<>>]
\* a temporary file named as readers name a MIDX
TmpName_MidxNamed == [kind |-> "midx", id |-> <<>>]

\* pack_dir + "/tmp_midx_XXXXXX"
TmpName == [kind |-> "tmp", id |-> <<>>]

\* "test-1.pack" and "test-2.pack"
PackName1 == <<116, 101, 115, 116, 45, 49, 46, 112, 97, 99, 107>>
PackName2 == <<116, 101, 115, 116, 45, 50, 46, 112, 97, 99, 107>>
PackNameUniverse == {PackName1, PackName2}

\* an object id: first byte a, last byte z, zero in between
OidOf(a, z) == <<a>> \o Zeros(MIDX_OID_LEN - 2) \o <<z>>
OidUniverse == {OidOf(0, 1), OidOf(170, 0), OidOf(170, 1)}

\* 0x7fffffff, 0x80000000 and 0x100000000
Off7fffffff == <<0, 0, 0, 0, 127, 255, 255, 255>>
Off80000000 == <<0, 0, 0, 0, 128, 0, 0, 0>>
Off100000000 == <<0, 0, 0, 1, 0, 0, 0, 0>>
OffsetUniverse == {Off7fffffff, Off80000000, Off100000000}

\* the modification time of the pack an entry comes from
PackMtimeOf(id) == IF id = 0 THEN 0 ELSE 5

\* struct pack_midx_entry, for entries of the packs 0 .. nr_packs - 1
EntryUniverse(nr_packs) ==
    {[oid |-> o, pack_int_id |-> p, offset |-> f, pack_mtime |-> PackMtimeOf(p)] :
        o \in OidUniverse, p \in 0..(nr_packs - 1), f \in OffsetUniverse}

SeqsUpTo(S, n) == UNION {[1..k -> S] : k \in 0..n}

----------------------------------------------------------------------------
(* The chunk writers of midx.c *)

RECURSIVE PackLookupFrom(_, _, _)
PackLookupFrom(names, i, cur_len) ==
    IF i > Len(names) THEN <<>>
    ELSE Be32(cur_len) \o PackLookupFrom(names, i + 1, cur_len + Len(names[i]) + 1)

write_midx_chunk_packlookup(names) ==
    [bytes |-> PackLookupFrom(names, 1, 0), ret |-> 4 * Len(names), bug |-> FALSE]

\* the name loop with the order check weakened to strcmp(...) < 0
RECURSIVE PackNamesFrom_AllowEqual(_, _, _)
PackNamesFrom_AllowEqual(names, i, acc) ==
    IF i > Len(names) THEN [bytes |-> acc, ret |-> Len(acc), bug |-> FALSE]
    ELSE IF i > 1 /\ strcmp(names[i], names[i - 1]) < 0
         THEN [bytes |-> acc, ret |-> Len(acc), bug |-> TRUE]
    ELSE PackNamesFrom_AllowEqual(names, i + 1, acc \o names[i] \o <<0>>)

RECURSIVE PackNamesFrom(_, _, _)
PackNamesFrom(names, i, acc) ==
    IF i > Len(names) THEN [bytes |-> acc, ret |-> Len(acc), bug |-> FALSE]
    ELSE IF i > 1 /\ strcmp(names[i], names[i - 1]) <= 0
         THEN [bytes |-> acc, ret |-> Len(acc), bug |-> TRUE]
    ELSE PackNamesFrom(names, i + 1, acc \o names[i] \o <<0>>)

write_midx_chunk_packnames(names) == PackNamesFrom(names, 1, <<>>)

\* the inner while loop of write_midx_chunk_oidfanout for the first byte i
\* the bucket scan with an if in place of the while: at most one entry is taken
ScanBucket_OneOnly(objs, i, next, prev, count) ==
    IF next > Len(objs) THEN [next |-> next, count |-> count]
    ELSE IF objs[next].oid[1] # i THEN [next |-> next, count |-> count]
    ELSE [next |-> next + 1, count |-> count + 1]

RECURSIVE ScanBucket(_, _, _, _, _)
ScanBucket(objs, i, next, prev, count) ==
    IF next > Len(objs) THEN [next |-> next, count |-> count]
    ELSE IF objs[next].oid[1] # i THEN [next |-> next, count |-> count]
    ELSE ScanBucket(objs, i, next + 1, next,
                    IF prev = 0 \/ oidcmp(objs[prev].oid, objs[next].oid) # 0
                    THEN count + 1 ELSE count)

\* the iterations lo .. hi of the for loop of write_midx_chunk_oidfanout, begun
\* with the given list pointer and count_distinct (the range is halved to keep
\* the evaluation shallow; the iterations run in the order lo, lo + 1, ..., hi)
RECURSIVE FanoutRange(_, _, _, _, _)
FanoutRange(objs, lo, hi, list, count) ==
    IF lo = hi
    THEN LET r == ScanBucket(objs, lo, list, 0, count)
         IN  [bytes |-> Be32(r.count), next |-> r.next, count |-> r.count]
    ELSE LET mid == (lo + hi) \div 2
             a == FanoutRange(objs, lo, mid, list, count)
             b == FanoutRange(objs, mid + 1, hi, a.next, a.count)
         IN  [bytes |-> a.bytes \o b.bytes, next |-> b.next, count |-> b.count]

write_midx_chunk_oidfanout(objs) ==
    [bytes |-> FanoutRange(objs, 0, 255, 1, 0).bytes, ret |-> MIDX_CHUNK_FANOUT_SIZE,
     bug |-> FALSE]

RECURSIVE OidLookupFrom(_, _, _, _, _)
OidLookupFrom(hash_len, objs, i, last, acc) ==
    IF i > Len(objs) THEN [bytes |-> acc, ret |-> Len(acc), bug |-> FALSE]
    ELSE IF i < Len(objs) /\ oidcmp(objs[i].oid, objs[i + 1].oid) >= 0
         THEN [bytes |-> acc, ret |-> Len(acc), bug |-> TRUE]
    ELSE IF last # 0 /\ oidcmp(objs[last].oid, objs[i].oid) = 0
         THEN OidLookupFrom(hash_len, objs, i + 1, last, acc)
    ELSE OidLookupFrom(hash_len, objs, i + 1, i, acc \o SubSeq(objs[i].oid, 1, hash_len))

write_midx_chunk_oidlookup(hash_len, objs) == OidLookupFrom(hash_len, objs, 1, 0, <<>>)

RECURSIVE ObjectOffsetsFrom(_, _, _, _, _, _, _)
ObjectOffsetsFrom(large_offset_needed, objs, pack_perm, i, last, nr_large_offset, acc) ==
    IF i > Len(objs) THEN [bytes |-> acc, ret |-> Len(acc), bug |-> FALSE]
    ELSE IF last # 0 /\ oidcmp(objs[last].oid, objs[i].oid) = 0
         THEN ObjectOffsetsFrom(large_offset_needed, objs, pack_perm, i + 1, last,
                                nr_large_offset, acc)
    ELSE LET id == Be32(pack_perm[objs[i].pack_int_id + 1])
         IN  IF large_offset_needed /\ Above31(objs[i].offset)
             THEN ObjectOffsetsFrom(large_offset_needed, objs, pack_perm, i + 1, i,
                                    nr_large_offset + 1,
                                    acc \o id \o OrHighBit(Be32(nr_large_offset)))
             ELSE IF ~large_offset_needed /\ Above32(objs[i].offset)
             THEN [bytes |-> acc \o id, ret |-> Len(acc), bug |-> TRUE]
             ELSE ObjectOffsetsFrom(large_offset_needed, objs, pack_perm, i + 1, i,
                                    nr_large_offset, acc \o id \o Low32(objs[i].offset))

write_midx_chunk_objectoffsets(large_offset_needed, objs, pack_perm) ==
    ObjectOffsetsFrom(large_offset_needed, objs, pack_perm, 1, 0, 0, <<>>)

\* reading past the last entry is an out-of-bounds read: the run is lost
RECURSIVE LargeOffsetsFrom(_, _, _, _, _)
LargeOffsetsFrom(nr_large_offset, objs, list, last, acc) ==
    IF nr_large_offset = 0 THEN [bytes |-> acc, ret |-> Len(acc), bug |-> FALSE]
    ELSE IF list > Len(objs) THEN [bytes |-> acc, ret |-> Len(acc), bug |-> TRUE]
    ELSE IF last # 0 /\ oidcmp(objs[last].oid, objs[list].oid) = 0
         THEN LargeOffsetsFrom(nr_large_offset, objs, list + 1, last, acc)
    ELSE IF ~Above31(objs[list].offset)
         THEN LargeOffsetsFrom(nr_large_offset, objs, list + 1, list, acc)
    ELSE LargeOffsetsFrom(nr_large_offset - 1, objs, list + 1, list,
                          acc \o SubSeq(objs[list].offset, 1, 4) \o Low32(objs[list].offset))

write_midx_chunk_largeoffsets(nr_large_offset, objs) ==
    LargeOffsetsFrom(nr_large_offset, objs, 1, 0, <<>>)

----------------------------------------------------------------------------
(* sort_packs_by_name *)

PairOrders(n) == {p \in [1..n -> 1..n] : \A i, j \in 1..n : i # j => p[i] # p[j]}

\* the orders QSORT may leave the pairs in: pairs[i] is the input pair order[i]
SortOrders(names) ==
    {order \in PairOrders(Len(names)) :
        \A i, j \in 1..Len(names) : i < j => strcmp(names[order[i]], names[order[j]]) <= 0}

\* pack_names[i] = pairs[i].pack_name
SortedNames(names, order) == [i \in 1..Len(names) |-> names[order[i]]]

\* the permutation that leaves every id where it was
PackPerm_Identity(names, order) == [id1 \in 1..Len(names) |-> id1 - 1]

\* perm[pairs[i].pack_int_id] = i, for the ids 0 .. nr_packs - 1
PackPerm(names, order) ==
    [id1 \in 1..Len(names) |-> (CHOOSE i \in 1..Len(names) : order[i] = id1) - 1]

----------------------------------------------------------------------------
(* The trailing hash *)

\* the hash finalize_hashfile appends: a 20-byte function of all the bytes
\* written (byte j counts the odd bytes at the positions j, j + 20, ...; the
\* last byte is the length)
HashOf(data) ==
    [j \in 1..GIT_MAX_RAWSZ |->
        IF j = GIT_MAX_RAWSZ THEN Len(data) % 256
        ELSE Cardinality({k \in 0..((Len(data) - j) \div GIT_MAX_RAWSZ) :
                             data[j + GIT_MAX_RAWSZ * k] % 2 = 1}) % 256]

----------------------------------------------------------------------------
(* write_midx_file *)

Hi32(x) == (x \div 65536) \div 65536
Lo32(x) == (x % 65536) + 65536 * ((x \div 65536) % 65536)

\* large offsets taken as needed from the first offset above 0x7fffffff
LargeOffsetNeeded_From2p31(objs) == \E i \in 1..Len(objs) : Above31(objs[i].offset)

\* the count of the offsets above 0x7fffffff, and whether one is above 0xffffffff
NrLargeOffset(objs) == Cardinality({i \in 1..Len(objs) : Above31(objs[i].offset)})
LargeOffsetNeeded(objs) == \E i \in 1..Len(objs) : Above32(objs[i].offset)

\* the header: signature, version, hash version, hash length, base count,
\* chunk count, pack count
HeaderBytes(num_chunks, nr_packs) ==
    MIDX_SIGNATURE \o MIDX_VERSION
        \o <<MIDX_OID_VERSION, MIDX_OID_LEN, 0, num_chunks>> \o Be32(nr_packs)

\* chunk_ids[0 .. num_chunks] as a sequence
ChunkIds(large_offset_needed) ==
    IF large_offset_needed
    THEN <<MIDX_CHUNKID_PACKLOOKUP, MIDX_CHUNKID_OIDFANOUT, MIDX_CHUNKID_OIDLOOKUP,
           MIDX_CHUNKID_OBJECTOFFSETS, MIDX_CHUNKID_LARGEOFFSETS, MIDX_CHUNKID_PACKNAMES,
           Zeros(4)>>
    ELSE <<MIDX_CHUNKID_PACKLOOKUP, MIDX_CHUNKID_OIDFANOUT, MIDX_CHUNKID_OIDLOOKUP,
           MIDX_CHUNKID_OBJECTOFFSETS, MIDX_CHUNKID_PACKNAMES, Zeros(4)>>

\* chunk_offsets[0 .. num_chunks] as a sequence
ChunkOffsets(num_chunks, nr_packs, nr_objects, large_offset_needed, nr_large_offset, total_name_len) ==
    LET o0 == MIDX_HEADER_SIZE + MIDX_CHUNKLOOKUP_WIDTH * (num_chunks + 1)
        o1 == o0 + nr_packs * 4
        o2 == o1 + MIDX_CHUNK_FANOUT_SIZE
        o3 == o2 + nr_objects * MIDX_OID_LEN
        o4 == o3 + MIDX_CHUNK_OFFSET_WIDTH * nr_objects
        o5 == o4 + MIDX_CHUNK_LARGE_OFFSET_WIDTH * nr_large_offset
    IN  IF large_offset_needed
        THEN <<o0, o1, o2, o3, o4, o5, o5 + total_name_len>>
        ELSE <<o0, o1, o2, o3, o4, o4 + total_name_len>>

\* the chunk table written with its ids and without its offsets
ChunkTableFrom_IdsOnly(ids, offsets, i) ==
    Concat([k \in 1..Len(ids) |-> ids[k] \o Zeros(8)])

RECURSIVE ChunkTableFrom(_, _, _)
ChunkTableFrom(ids, offsets, i) ==
    IF i > Len(ids) THEN <<>>
    ELSE ids[i] \o Be32(Hi32(offsets[i])) \o Be32(Lo32(offsets[i]))
             \o ChunkTableFrom(ids, offsets, i + 1)

\* the switch on chunk_ids[chunk]
WriteChunk(id, loc, names, objs) ==
    IF id = MIDX_CHUNKID_PACKLOOKUP THEN write_midx_chunk_packlookup(names)
    ELSE IF id = MIDX_CHUNKID_PACKNAMES THEN write_midx_chunk_packnames(names)
    ELSE IF id = MIDX_CHUNKID_OIDFANOUT THEN write_midx_chunk_oidfanout(objs)
    ELSE IF id = MIDX_CHUNKID_OIDLOOKUP THEN write_midx_chunk_oidlookup(MIDX_OID_LEN, objs)
    ELSE IF id = MIDX_CHUNKID_OBJECTOFFSETS
         THEN write_midx_chunk_objectoffsets(loc.large_offset_needed, objs, loc.pack_perm)
    ELSE IF id = MIDX_CHUNKID_LARGEOFFSETS
         THEN write_midx_chunk_largeoffsets(loc.nr_large_offset, objs)
    ELSE [bytes |-> <<>>, ret |-> 0, bug |-> id # Zeros(4)]

\* the loop over the chunks: st is the file so far, the count of bytes
\* written, the positions at which the chunks began, and whether BUG() fired
RECURSIVE WriteChunksFrom(_, _, _, _, _)
WriteChunksFrom(st, chunk, loc, names, objs) ==
    IF chunk > loc.num_chunks THEN st
    ELSE IF loc.chunk_offsets[chunk + 1] # st.written
         THEN [st EXCEPT !.bug = TRUE]
    ELSE LET r == WriteChunk(loc.chunk_ids[chunk + 1], loc, names, objs)
             nx == [bytes |-> st.bytes \o r.bytes,
                    written |-> st.written + r.ret,
                    starts |-> Append(st.starts, Len(st.bytes)),
                    bug |-> r.bug]
         IN  IF r.bug THEN nx ELSE WriteChunksFrom(nx, chunk + 1, loc, names, objs)

\* everything write_midx_file puts into the hashfile before finalize_hashfile
WrittenFile(loc, names, objs) ==
    LET head == HeaderBytes(loc.num_chunks, Len(names))
                  \o ChunkTableFrom(loc.chunk_ids, loc.chunk_offsets, 1)
    IN  WriteChunksFrom([bytes |-> head, written |-> Len(head), starts |-> <<>>,
                         bug |-> FALSE],
                        0, loc, names, objs)

----------------------------------------------------------------------------
(* The write_midx_file run, in three steps: up to the opening of the file, *)
(* up to finalize_hashfile, and the rename.                                *)

NoLocals == [arg_names |-> <<>>, nr_large_offset |-> 0, large_offset_needed |-> FALSE, pack_perm |-> <<>>,
             total_name_len |-> 0, num_chunks |-> 0, chunk_ids |-> <<>>,
             chunk_offsets |-> <<>>, fname |-> NoName, rename_needed |-> FALSE,
             starts |-> <<>>, final_hash |-> <<>>, ret |-> NoName]

NoReader == [open |-> FALSE]
NoLookup == [op |-> "none"]
NoVerify == [ran |-> FALSE]
\* an empty slot of the packs array of a reader
NullPack == [null |-> TRUE, name |-> <<>>, fd_open |-> FALSE]
NoDamage == [kind |-> "none", rehash |-> FALSE]

MidxFileName(hash) == [kind |-> "midx", id |-> hash]

RemoveFile(files, name) == [n \in (DOMAIN files) \ {name} |-> files[n]]
PutFile(files, name, data) == [n \in (DOMAIN files) \cup {name} |->
                                  IF n = name THEN data ELSE files[n]]

RECURSIVE SumNameLen(_, _)
SumNameLen(names, i) ==
    IF i > Len(names) THEN 0 ELSE Len(names[i]) + 1 + SumNameLen(names, i + 1)

\* if (!core_midx) return 0;
WmfDisabled ==
    /\ wpc = "start"
    /\ ~core_midx
    /\ wpc' = "done"
    /\ UNCHANGED <<pack_names, objects, midx_name, core_midx, w, fs, m, rpc, lk, envVars, regVars, proc, indexVars, coneVars>>

WmfBegin ==
    /\ wpc = "start"
    /\ core_midx
    /\ \E order \in SortOrders(pack_names) :
        LET nlo == NrLargeOffset(objects)
            lon == LargeOffsetNeeded(objects)
            names == SortedNames(pack_names, order)
            nch == IF lon THEN 6 ELSE 5
            tnl == SumNameLen(names, 1)
            fname == IF midx_name = NoName THEN TmpName ELSE midx_name
        IN  /\ pack_names' = names
            /\ w' = [NoLocals EXCEPT
                        !.arg_names = pack_names,
                        !.nr_large_offset = nlo,
                        !.large_offset_needed = lon,
                        !.pack_perm = PackPerm(pack_names, order),
                        !.total_name_len = tnl,
                        !.num_chunks = nch,
                        !.chunk_ids = ChunkIds(lon),
                        !.chunk_offsets = ChunkOffsets(nch, Len(names), Len(objects),
                                                       lon, nlo, tnl),
                        !.fname = fname,
                        !.rename_needed = (midx_name = NoName)]
            /\ fs' = PutFile(fs, fname, <<>>)
    /\ wpc' = "write"
    /\ UNCHANGED <<objects, midx_name, core_midx, m, rpc, lk, envVars, regVars, proc, indexVars, coneVars>>

WmfWrite ==
    /\ wpc = "write"
    /\ \E r \in {WrittenFile(w, pack_names, objects)} :
        IF r.bug
        THEN /\ fs' = PutFile(fs, w.fname, r.bytes)
             /\ w' = [w EXCEPT !.starts = r.starts]
             /\ wpc' = "bug"
        ELSE \E h \in {HashOf(r.bytes)} :
             /\ fs' = PutFile(fs, w.fname, r.bytes \o h)
             /\ w' = [w EXCEPT !.starts = r.starts, !.final_hash = h]
             /\ wpc' = "rename"
    /\ UNCHANGED <<pack_names, objects, midx_name, core_midx, m, rpc, lk, envVars, regVars, proc, indexVars, coneVars>>

WmfFinish ==
    /\ wpc = "rename"
    /\ IF w.rename_needed
       THEN /\ fs' = PutFile(RemoveFile(fs, w.fname), MidxFileName(w.final_hash),
                             fs[w.fname])
            /\ w' = [w EXCEPT !.ret = MidxFileName(w.final_hash)]
       ELSE /\ fs' = fs
            /\ w' = [w EXCEPT !.ret = midx_name]
    /\ wpc' = "done"
    /\ UNCHANGED <<pack_names, objects, midx_name, core_midx, m, rpc, lk, envVars, regVars, proc, indexVars, coneVars>>

----------------------------------------------------------------------------
(* load_midxed_git_one *)

NULL == -1

\* 16 + 8 * 5 + 4 * 256 + GIT_MAX_RAWSZ
MIDX_MIN_SIZE == 16 + 8 * 5 + 4 * 256 + GIT_MAX_RAWSZ

\* the 64-bit chunk offset of table entry i, when it fits the model's integers
ChunkOffsetAt(data, i) ==
    IF Bytes(data, MIDX_HEADER_SIZE + 12 * i + 4, 4) = Zeros(4)
       /\ data[MIDX_HEADER_SIZE + 12 * i + 8 + 1] < 128
    THEN U32(Bytes(data, MIDX_HEADER_SIZE + 12 * i + 8, 4))
    ELSE Len(data)

\* the pointer the switch leaves in a chunk field: that of the last table
\* entry 0 .. num_chunks with the id, NULL when there is none
ChunkPointer(data, num_chunks, id) ==
    LET hits == {i \in 0..num_chunks : Bytes(data, MIDX_HEADER_SIZE + 12 * i, 4) = id}
    IN  IF hits = {} THEN NULL
        ELSE ChunkOffsetAt(data, CHOOSE i \in hits : \A j \in hits : j <= i)

\* the C string at data + off
RECURSIVE StringAt(_, _)
StringAt(data, off) ==
    IF off >= Len(data) \/ data[off + 1] = 0 THEN <<>>
    ELSE <<data[off + 1]>> \o StringAt(data, off + 1)

\* the outcome of load_midxed_git_one on a file: "absent" (returns 0), "die",
\* or "ok" with the reader
LoadMidxedGitOne(files, name) ==
    IF name \notin DOMAIN files THEN [status |-> "absent", why |-> "open", midx |-> NoReader]
    ELSE LET data == files[name]
             midx_size == Len(data)
         IN
         IF midx_size < MIDX_MIN_SIZE
         THEN [status |-> "die", why |-> "too small", midx |-> NoReader]
         ELSE IF Bytes(data, 0, 4) # MIDX_SIGNATURE
         THEN [status |-> "die", why |-> "signature", midx |-> NoReader]
         ELSE IF Bytes(data, 4, 4) # MIDX_VERSION
         THEN [status |-> "die", why |-> "version", midx |-> NoReader]
         ELSE
         LET num_chunks == data[12]
             fanout == ChunkPointer(data, num_chunks, MIDX_CHUNKID_OIDFANOUT)
             lookup == ChunkPointer(data, num_chunks, MIDX_CHUNKID_PACKLOOKUP)
             names == ChunkPointer(data, num_chunks, MIDX_CHUNKID_PACKNAMES)
             num_packs == U32(Bytes(data, 12, 4))
             name_offset(i) == U32(Bytes(data, lookup + 4 * i, 4))
         IN
         IF fanout = NULL
         THEN [status |-> "die", why |-> "missing OID Fanout chunk", midx |-> NoReader]
         ELSE IF lookup = NULL
         THEN [status |-> "die", why |-> "missing Packfile Name Lookup chunk",
               midx |-> NoReader]
         ELSE IF names = NULL
         THEN [status |-> "die", why |-> "missing Packfile Name chunk", midx |-> NoReader]
         ELSE IF \E i \in 0..(num_packs - 1) : names + name_offset(i) >= midx_size
         THEN [status |-> "die", why |-> "invalid packfile name lookup", midx |-> NoReader]
         ELSE [status |-> "ok", why |-> "",
               midx |-> [open |-> TRUE,
                         data |-> data,
                         data_len |-> midx_size,
                         hash_version |-> data[9],
                         hash_len |-> data[10],
                         num_chunks |-> num_chunks,
                         chunk_pack_lookup |-> lookup,
                         chunk_pack_names |-> names,
                         chunk_oid_fanout |-> fanout,
                         chunk_oid_lookup |->
                             ChunkPointer(data, num_chunks, MIDX_CHUNKID_OIDLOOKUP),
                         chunk_object_offsets |->
                             ChunkPointer(data, num_chunks, MIDX_CHUNKID_OBJECTOFFSETS),
                         chunk_large_offsets |->
                             ChunkPointer(data, num_chunks, MIDX_CHUNKID_LARGEOFFSETS),
                         num_objects |-> U32(Bytes(data, fanout + 255 * 4, 4)),
                         num_packs |-> num_packs,
                         pack_names |->
                             [i \in 1..num_packs |-> StringAt(data, names + name_offset(i - 1))],
                         packs |-> [i \in 1..num_packs |-> NullPack]]]

----------------------------------------------------------------------------
(* The lookups of the reader *)

\* nth_midxed_object_details: NULL, or the pack id and the offset of entry n
nth_midxed_object_details(mg, n) ==
    IF n >= mg.num_objects THEN [null |-> TRUE]
    ELSE LET word == Bytes(mg.data, mg.chunk_object_offsets + 8 * n + 4, 4)
         IN  [null |-> FALSE,
              pack_int_id |-> U32(Bytes(mg.data, mg.chunk_object_offsets + 8 * n, 4)),
              offset |->
                  IF mg.chunk_large_offsets # NULL /\ word[1] >= 128
                  THEN Bytes(mg.data,
                             mg.chunk_large_offsets + 8 * U32(ClearHighBit(word)), 8)
                  ELSE Zeros(4) \o word]

\* the OID at position n of the OID Lookup chunk
OidAt(mg, n) == Bytes(mg.data, mg.chunk_oid_lookup + mg.hash_len * n, mg.hash_len)

\* nth_midxed_object_entry
nth_midxed_object_entry(mg, n) ==
    LET details == nth_midxed_object_details(mg, n)
    IN  IF details.null THEN [null |-> TRUE]
        ELSE [null |-> FALSE, oid |-> OidAt(mg, n), pack_int_id |-> details.pack_int_id,
              offset |-> details.offset, pack_mtime |-> 0]

FanoutAt(mg, i) == U32(Bytes(mg.data, mg.chunk_oid_fanout + 4 * i, 4))

\* the while loop of bsearch_midx
RECURSIVE BsearchFrom(_, _, _, _)
BsearchFrom(mg, sha1, first, last) ==
    IF first >= last THEN [found |-> 0, pos |-> first]
    ELSE LET mid == first + (last - first) \div 2
             cmp == oidcmp(sha1, OidAt(mg, mid))
         IN  IF cmp = 0 THEN [found |-> 1, pos |-> mid]
             ELSE IF cmp > 0 THEN BsearchFrom(mg, sha1, mid + 1, last)
             ELSE BsearchFrom(mg, sha1, first, mid)

\* the search started at the end of the bucket of the first byte
bsearch_midx_BucketEnd(mg, sha1) ==
    BsearchFrom(mg, sha1, FanoutAt(mg, sha1[1]), FanoutAt(mg, sha1[1]))

bsearch_midx(mg, sha1) ==
    BsearchFrom(mg, sha1,
                IF sha1[1] # 0 THEN FanoutAt(mg, sha1[1] - 1) ELSE 0,
                FanoutAt(mg, sha1[1]))

----------------------------------------------------------------------------
(* The reader's operations as steps *)

\* get_midxed_git on the file the builder returned
GetMidxedGit ==
    /\ wpc = "done"
    /\ core_midx
    /\ proc = "run"
    /\ rpc = "none"
    /\ \E r \in {LoadMidxedGitOne(fs, w.ret)} :
        /\ rpc' = r.status
        /\ m' = r.midx
        /\ proc' = IF r.status = "die" THEN "die" ELSE proc
    /\ UNCHANGED <<pack_names, objects, midx_name, core_midx, wpc, w, fs, lk, envVars, regVars, indexVars, coneVars>>

\* bsearch_midx, then nth_midxed_object_details at the position found
\* (a reader without an OID Lookup or an Object Offsets chunk has a null pointer
\* there, and reading through it ends the process)
LookupOid(oid) ==
    /\ rpc = "ok"
    /\ proc = "run"
    /\ IF m.chunk_oid_lookup = NULL \/ m.chunk_object_offsets = NULL
       THEN /\ lk' = [op |-> "crash", oid |-> oid]
            /\ proc' = "crash"
       ELSE /\ \E b \in {bsearch_midx(m, oid)} :
                lk' = [op |-> "lookup", oid |-> oid, found |-> b.found, pos |-> b.pos,
                       details |-> IF b.found = 1 THEN nth_midxed_object_details(m, b.pos)
                                   ELSE [null |-> TRUE]]
            /\ proc' = proc
    /\ UNCHANGED <<pack_names, objects, midx_name, core_midx, wpc, w, fs, m, rpc, envVars, regVars, indexVars, coneVars>>

\* the entries are in strictly ascending OID order
StrictlyAscending(objs) ==
    \A i \in 1..(Len(objs) - 1) : oidcmp(objs[i].oid, objs[i + 1].oid) < 0

DistinctNames(names) ==
    \A i, j \in 1..Len(names) : i # j => names[i] # names[j]

\* the arguments given to the builder: every list of distinct pack names with
\* every list of entries in ascending OID order; and, with less variety since
\* the builder rejects them, the other lists of entries (all with the first
\* offset) and the lists with a repeated pack name (all entries of pack 0)
BuilderInput(names, objs) ==
    \/ DistinctNames(names) /\ StrictlyAscending(objs)
    \/ /\ \A i \in 1..Len(objs) : objs[i].offset = Off7fffffff
       /\ DistinctNames(names) \/ \A i \in 1..Len(objs) : objs[i].pack_int_id = 0

----------------------------------------------------------------------------
(* The index of sparse-index.c: entries, trees, cache tree, sparse cone *)

Slash == 47
S_IFREG == 33188
S_IFGITLINK == 57344
SPARSE_DIR_MODE == 16384

\* an index entry; ce_flags is kept as its skip-worktree bit and its stage
CacheEntry(name, mode, oid, skip_worktree, stage) ==
    [name |-> name, mode |-> mode, oid |-> oid, skip_worktree |-> skip_worktree, stage |-> stage]

S_ISSPARSEDIR(ce) == ce.mode = SPARSE_DIR_MODE
S_ISGITLINK(mode) == mode = S_IFGITLINK
S_ISDIR(mode) == mode = SPARSE_DIR_MODE

HasPrefix(name, prefix) ==
    /\ Len(name) >= Len(prefix)
    /\ SubSeq(name, 1, Len(prefix)) = prefix

\* strchr(name + from, '/'): the position of the first slash after the
\* first `from` characters, 0 when there is none
SlashAfter(name, from) ==
    LET at == {k \in (from + 1)..Len(name) : name[k] = Slash}
    IN IF at = {} THEN 0 ELSE CHOOSE k \in at : \A j \in at : k <= j

\* the number of entries of cache[lo+1..hi] that lie under the directory dir
SpanUnder(cache, lo, hi, dir) ==
    Cardinality({k \in (lo + 1)..hi : HasPrefix(cache[k].name, dir)})

\* cache_tree_update: the node of the directory ct_path over the entries
\* cache[lo+1..hi].  The OID of a node stands for the tree object written
\* for it: the names, modes and OIDs of its members, subdirectories by the
\* OID of their own tree.  A tree object holds neither flags nor stages.
RECURSIVE CacheTreeParts(_, _, _, _)
RECURSIVE CacheTreeNode(_, _, _, _)

CacheTreeParts(cache, ct_path, lo, hi) ==
    IF lo >= hi THEN <<>>
    ELSE LET ce == cache[lo + 1]
             slash == SlashAfter(ce.name, Len(ct_path))
         IN IF slash = 0
            THEN <<[dir |-> FALSE,
                    name |-> SubSeq(ce.name, Len(ct_path) + 1, Len(ce.name)),
                    mode |-> ce.mode, oid |-> ce.oid,
                    cache_tree |-> [entry_count |-> 0]]>>
                 \o CacheTreeParts(cache, ct_path, lo + 1, hi)
            ELSE LET child == SubSeq(ce.name, 1, slash)
                     span == SpanUnder(cache, lo, hi, child)
                     node == CacheTreeNode(cache, child, lo, lo + span)
                 IN <<[dir |-> TRUE,
                       name |-> SubSeq(ce.name, Len(ct_path) + 1, slash - 1),
                       mode |-> SPARSE_DIR_MODE, oid |-> node.oid,
                       cache_tree |-> node]>>
                    \o CacheTreeParts(cache, ct_path, lo + span, hi)

CacheTreeNode(cache, ct_path, lo, hi) ==
    LET parts == CacheTreeParts(cache, ct_path, lo, hi)
    IN [entry_count |-> hi - lo,
        oid |-> [tree |-> [k \in 1..Len(parts) |->
                    [name |-> parts[k].name, mode |-> parts[k].mode, oid |-> parts[k].oid]]],
        down |-> SelectSeq(parts, LAMBDA p : p.dir)]

cache_tree_update(cache, cache_nr) == CacheTreeNode(cache, <<>>, 0, cache_nr)

\* the index in down[] of the subtree called name, negative when absent
cache_tree_subtree_pos(ct, name) ==
    LET at == {k \in 1..Len(ct.down) : ct.down[k].name = name}
    IN IF at = {} THEN -1 ELSE (CHOOSE k \in at : TRUE) - 1

\* the cone-mode pattern matcher at a directory path ("" or ending in a
\* slash): every file of the root is in the cone, a directory is in the cone
\* when it is a parent of a recursive directory, and recursively in the cone
\* when it is a recursive directory or lies under one
DirOf(path) == IF path = <<>> THEN <<>> ELSE SubSeq(path, 1, Len(path) - 1)

IsUnder(dir, top) ==
    \/ dir = top
    \/ HasPrefix(dir, top \o <<Slash>>)

path_matches_pattern_list(path, pl) ==
    LET dir == DirOf(path)
    IN IF pl.full_cone THEN "MATCHED"
       ELSE IF dir = <<>> THEN "MATCHED"
       ELSE IF \E r \in pl.recursive : r # dir /\ IsUnder(r, dir) THEN "MATCHED"
       ELSE IF \E r \in pl.recursive : IsUnder(dir, r) THEN "MATCHED_RECURSIVE"
       ELSE "NOT_MATCHED"

----------------------------------------------------------------------------
(* convert_to_sparse *)

\* a directory entry made without the skip-worktree bit
construct_sparse_dir_entry_InWorktree(sparse_dir, tree) ==
    CacheEntry(sparse_dir, SPARSE_DIR_MODE, tree.oid, FALSE, 0)

construct_sparse_dir_entry(sparse_dir, tree) ==
    CacheEntry(sparse_dir, SPARSE_DIR_MODE, tree.oid, TRUE, 0)

\* the first loop of convert_to_sparse_rec, with can_convert already
\* cleared by a match inside the cone
CanConvert_IgnoreFlags(cache, start, end, match) ==
    match = "NOT_MATCHED"

CanConvert(cache, start, end, match) ==
    /\ match = "NOT_MATCHED"
    /\ \A i \in start..(end - 1) :
          LET ce == cache[i + 1]
          IN ~ (\/ ce.stage # 0
                \/ S_ISGITLINK(ce.mode)
                \/ ~ ce.skip_worktree)

\* the write position after a store: istate->cache[num_converted++]
NextWrite_Skip(num_converted) == num_converted + 2

NextWrite(num_converted) == num_converted + 1

RECURSIVE convert_to_sparse_rec(_, _, _, _, _, _, _)
RECURSIVE ConvertEntriesFrom(_, _, _, _, _, _, _)

\* the second loop of convert_to_sparse_rec from entry i on; the array is
\* rewritten in place.  writes holds, for every store into the array, the
\* position written and the position of the first entry not yet read;
\* spans holds the bounds and the value returned of every call made.
ConvertEntriesFrom(cache, num_converted, i, end, ct_path, ct, pl) ==
    IF i >= end THEN [cache |-> cache, num_converted |-> num_converted,
                      writes |-> {}, spans |-> {}]
    ELSE LET ce == cache[i + 1]
             slash == SlashAfter(ce.name, Len(ct_path))
             pos == IF slash = 0 THEN -1
                    ELSE cache_tree_subtree_pos(ct, SubSeq(ce.name, Len(ct_path) + 1, slash - 1))
         IN IF pos < 0
            THEN LET rest == ConvertEntriesFrom([cache EXCEPT ![num_converted + 1] = ce],
                                                NextWrite(num_converted), i + 1, end,
                                                ct_path, ct, pl)
                 IN [rest EXCEPT !.writes = @ \cup {[num_converted |-> num_converted, i |-> i]}]
            ELSE LET sub == ct.down[pos + 1].cache_tree
                     span == sub.entry_count
                     r == convert_to_sparse_rec(cache, num_converted, i, i + span,
                                                SubSeq(ce.name, 1, slash), sub, pl)
                     rest == ConvertEntriesFrom(r.cache, num_converted + r.count,
                                                i + span, end, ct_path, ct, pl)
                 IN [rest EXCEPT !.writes = @ \cup r.writes, !.spans = @ \cup r.spans]

convert_to_sparse_rec(cache, num_converted, start, end, ct_path, ct, pl) ==
    LET match == path_matches_pattern_list(ct_path, pl)
    IN IF CanConvert(cache, start, end, match)
       THEN [cache |-> [cache EXCEPT ![num_converted + 1] =
                                        construct_sparse_dir_entry(ct_path, ct)],
             count |-> 1,
             writes |-> {[num_converted |-> num_converted, i |-> start]},
             spans |-> {[start |-> start, end |-> end, count |-> 1]}]
       ELSE LET r == ConvertEntriesFrom(cache, num_converted, start, end, ct_path, ct, pl)
                count == r.num_converted - num_converted
            IN [cache |-> r.cache, count |-> count,
                writes |-> r.writes,
                spans |-> r.spans \cup {[start |-> start, end |-> end, count |-> count]}]

NoPatterns == [null |-> TRUE, use_cone_patterns |-> FALSE, full_cone |-> FALSE, recursive |-> {}]
NoCacheTree == [entry_count |-> -1]
NoSparseOp == [op |-> "none", ret |-> 0, warning |-> "", skipped |-> FALSE]

\* the outcome of a call; skipped marks the return of convert_to_sparse
\* before anything is loaded or configured
SparseResult(op, ret, warning) == [op |-> op, ret |-> ret, warning |-> warning, skipped |-> FALSE]

\* get_sparse_checkout_patterns into a zeroed pattern list: cone mode is
\* taken from the configuration and given up when the file holds a pattern
\* that is not a cone pattern; nothing is added when the file cannot be read
LoadedPatterns(file, core_sparse_checkout_cone) ==
    IF file.ok
    THEN [null |-> FALSE, use_cone_patterns |-> core_sparse_checkout_cone /\ file.use_cone_patterns,
          full_cone |-> file.full_cone, recursive |-> file.recursive]
    ELSE [NoPatterns EXCEPT !.null = FALSE, !.use_cone_patterns = core_sparse_checkout_cone]

\* the first test of convert_to_sparse, without the test of the sparse flag
NothingToConvert_SparseAgain(is, rp) ==
    \/ is.split_index
    \/ ~ rp.core_apply_sparse_checkout
    \/ ~ rp.core_sparse_checkout_cone

\* the first test of convert_to_sparse: the index is split or sparse already,
\* or the sparse checkout or its cone mode is off
NothingToConvert(is, rp) ==
    \/ is.split_index
    \/ is.sparse_index
    \/ ~ rp.core_apply_sparse_checkout
    \/ ~ rp.core_sparse_checkout_cone

\* convert_to_sparse; cache_tree_ok is whether cache_tree_update succeeds
ConvertToSparse(cache_tree_ok) ==
    /\ xp.pc = "idle"
    /\ efi.pc = "idle"
    /\ UNCHANGED <<midxVars, coneVars, full0, callVars>>
    /\ IF NothingToConvert(istate, repo)
       THEN /\ sres' = [SparseResult("convert_to_sparse", 0, "") EXCEPT !.skipped = TRUE]
            /\ UNCHANGED <<istate, repo>>
       ELSE LET sparse_index == IF repo.test_env >= 0 THEN repo.test_env = 1
                                ELSE repo.settings_sparse_index
                load == istate.sparse_checkout_patterns.null
                pl == IF load THEN LoadedPatterns(repo.patterns_file, repo.core_sparse_checkout_cone)
                      ELSE istate.sparse_checkout_patterns
                ct == cache_tree_update(istate.cache, istate.cache_nr)
                r == convert_to_sparse_rec(istate.cache, 0, 0, istate.cache_nr, <<>>, ct, pl)
            IN /\ repo' = [repo EXCEPT !.settings_sparse_index = sparse_index]
               /\ IF ~ sparse_index
                  THEN /\ sres' = SparseResult("convert_to_sparse", 0, "")
                       /\ UNCHANGED istate
                  ELSE IF load /\ ~ repo.patterns_file.ok
                  THEN /\ sres' = SparseResult("convert_to_sparse", 0, "")
                       /\ istate' = [istate EXCEPT !.sparse_checkout_patterns = pl]
                  ELSE IF ~ pl.use_cone_patterns
                  THEN /\ sres' = SparseResult("convert_to_sparse", -1,
                                               "attempting to use sparse-index without cone mode")
                       /\ istate' = [istate EXCEPT !.sparse_checkout_patterns = pl]
                  ELSE IF ~ cache_tree_ok
                  THEN /\ sres' = SparseResult("convert_to_sparse", -1,
                                               "unable to update cache-tree, staying full")
                       /\ istate' = [istate EXCEPT !.sparse_checkout_patterns = pl]
                  ELSE /\ sres' = SparseResult("convert_to_sparse", 0, "")
                       /\ istate' = [istate EXCEPT !.sparse_checkout_patterns = pl,
                                                   !.cache_tree = ct,
                                                   !.fsmonitor = FALSE,
                                                   !.cache = r.cache,
                                                   !.cache_nr = r.count,
                                                   !.drop_cache_tree = TRUE,
                                                   !.sparse_index = TRUE]

----------------------------------------------------------------------------
(* ensure_full_index *)

\* read_tree_recursive with add_path_to_index as its callback: the entries
\* made for the members of a tree, the directories walked into
RECURSIVE read_tree_recursive(_, _)
RECURSIVE ReadTreeFrom(_, _, _)

\* add_path_to_index without the prefix of the walked directory
add_path_to_index_NoBase(oid, base, path, mode) ==
    CacheEntry(path, mode, oid, TRUE, 0)

add_path_to_index(oid, base, path, mode) ==
    CacheEntry(base \o path, mode, oid, TRUE, 0)

ReadTreeFrom(items, k, base) ==
    IF k > Len(items) THEN <<>>
    ELSE (IF S_ISDIR(items[k].mode)
          THEN read_tree_recursive(items[k].oid, base \o items[k].name \o <<Slash>>)
          ELSE <<add_path_to_index(items[k].oid, base, items[k].name, items[k].mode)>>)
         \o ReadTreeFrom(items, k + 1, base)

read_tree_recursive(tree, base) == ReadTreeFrom(tree.tree, 1, base)

\* the entries ensure_full_index puts into the new array for one entry
FullEntriesOf(ce) ==
    IF ~ S_ISSPARSEDIR(ce) THEN <<ce>> ELSE read_tree_recursive(ce.oid, ce.name)

NoEfi == [pc |-> "idle", i |-> 0, full |-> <<>>, discarded |-> {}, warning |-> ""]
NoExpand == [pc |-> "idle", path |-> <<>>, nested |-> FALSE]

\* ensure_full_index up to its loop: nothing to do for a full index, else the
\* new index is set up with no entry
EfiBegin ==
    /\ xp.pc = "idle"
    /\ efi.pc = "idle"
    /\ IF ~ istate.sparse_index
       THEN /\ sres' = SparseResult("ensure_full_index", 0, "")
            /\ UNCHANGED efi
       ELSE /\ efi' = [NoEfi EXCEPT !.pc = "loop"]
            /\ UNCHANGED sres
    /\ UNCHANGED <<midxVars, coneVars, istate, repo, full0, in_expand_to_path, xp>>

\* one round of the loop: an ordinary entry is reused, a sparse-directory
\* entry is replaced by the entries of its tree and then discarded
EfiEntry ==
    /\ efi.pc = "loop"
    /\ efi.i < istate.cache_nr
    /\ LET ce == istate.cache[efi.i + 1]
       IN efi' = [efi EXCEPT !.i = efi.i + 1,
                             !.full = efi.full \o FullEntriesOf(ce),
                             !.discarded = IF S_ISSPARSEDIR(ce) THEN efi.discarded \cup {efi.i + 1}
                                           ELSE efi.discarded,
                             !.warning = IF S_ISSPARSEDIR(ce) /\ ~ ce.skip_worktree
                                         THEN "index entry is a directory, but not sparse"
                                         ELSE efi.warning]
    /\ UNCHANGED <<midxVars, coneVars, istate, repo, full0, sres, in_expand_to_path, xp>>

\* the copy back into the original index, and the return to the caller
EfiInstall ==
    /\ efi.pc = "loop"
    /\ efi.i >= istate.cache_nr
    /\ istate' = [istate EXCEPT !.sparse_index = FALSE,
                                !.cache = efi.full,
                                !.cache_nr = Len(efi.full)]
    /\ efi' = NoEfi
    /\ IF xp.pc = "expand"
       THEN /\ xp' = [xp EXCEPT !.pc = "cleanup"]
            /\ UNCHANGED sres
       ELSE /\ sres' = SparseResult("ensure_full_index", 0, efi.warning)
            /\ UNCHANGED xp
    /\ UNCHANGED <<midxVars, coneVars, repo, full0, in_expand_to_path>>

----------------------------------------------------------------------------
(* expand_to_path *)

\* index_file_exists: an entry of the index has the path as its name
index_file_exists(cache, cache_nr, path) ==
    \E k \in 1..cache_nr : cache[k].name = path

\* index_name_pos: the position of the entry with the name, or -1 - the
\* position at which the name would be inserted
index_name_pos(cache, cache_nr, name) ==
    LET at == {k \in 1..cache_nr : cache[k].name = name}
    IN IF at # {} THEN (CHOOSE k \in at : TRUE) - 1
       ELSE - Cardinality({k \in 1..cache_nr : strcmp(cache[k].name, name) < 0}) - 1

\* whether expand_to_path, past index_file_exists, goes on to ensure_full_index
ExpandNeeded(cache, cache_nr, path) ==
    LET path_as_dir == path \o <<Slash>>
        found == index_name_pos(cache, cache_nr, path_as_dir)
        pos == IF found < 0 THEN - found - 1 ELSE found
        null == ~ (pos < cache_nr)
        ce == cache[pos + 1]
    IN /\ ~ (~ null /\ ce.mode # SPARSE_DIR_MODE)
       /\ ~ (~ null /\ (\/ Len(ce.name) >= Len(path_as_dir)
                        \/ ~ HasPrefix(path_as_dir, ce.name)))

\* a call of expand_to_path: it returns at once while another call is
\* running or when the index is full, and else sets the guard
ExpandToPath(path) ==
    /\ efi.pc = "idle" \/ xp.pc # "idle"
    /\ IF in_expand_to_path
       THEN /\ xp' = [xp EXCEPT !.nested = TRUE]
            /\ UNCHANGED <<in_expand_to_path, sres>>
       ELSE IF ~ istate.sparse_index
       THEN /\ sres' = SparseResult("expand_to_path", 0, "")
            /\ UNCHANGED <<in_expand_to_path, xp>>
       ELSE /\ in_expand_to_path' = TRUE
            /\ xp' = [pc |-> "entered", path |-> path, nested |-> FALSE]
            /\ UNCHANGED sres
    /\ UNCHANGED <<midxVars, coneVars, istate, repo, full0, efi>>

\* from index_file_exists to the call of ensure_full_index or to cleanup
ExpandLookup ==
    /\ xp.pc = "entered"
    /\ IF index_file_exists(istate.cache, istate.cache_nr, xp.path)
       THEN /\ xp' = [xp EXCEPT !.pc = "cleanup"]
            /\ UNCHANGED efi
       ELSE IF ~ ExpandNeeded(istate.cache, istate.cache_nr, xp.path)
       THEN /\ xp' = [xp EXCEPT !.pc = "cleanup"]
            /\ UNCHANGED efi
       ELSE /\ xp' = [xp EXCEPT !.pc = "expand"]
            /\ efi' = IF istate.sparse_index THEN [NoEfi EXCEPT !.pc = "loop"] ELSE efi
    /\ UNCHANGED <<midxVars, coneVars, istate, repo, full0, sres, in_expand_to_path>>

\* the guard left set at cleanup
ExpandCleanupGuard_Kept(guard) == guard

\* cleanup: in_expand_to_path = 0
ExpandCleanupGuard(guard) == FALSE

ExpandCleanup ==
    /\ xp.pc = "cleanup"
    /\ in_expand_to_path' = ExpandCleanupGuard(in_expand_to_path)
    /\ xp' = NoExpand
    /\ sres' = SparseResult("expand_to_path", 0, "")
    /\ UNCHANGED <<midxVars, coneVars, istate, repo, full0, efi>>

----------------------------------------------------------------------------
(* The indexes given to the sparse index *)

PathA == <<97>>
PathBC == <<98, Slash, 99>>
PathBD == <<98, Slash, 100>>
PathBEF == <<98, Slash, 101, Slash, 102>>
PathDG == <<100, Slash, 103>>
\* in the order of the index
PathUniverse == <<PathA, PathBC, PathBD, PathBEF, PathDG>>

DirB == <<98>>
DirBE == <<98, Slash, 101>>

BlobOid(k) == [blob |-> k]

EntryKinds == {"skip", "present", "unmerged", "gitlink"}

EntryOfKind(k, kind) ==
    CacheEntry(PathUniverse[k],
               IF kind = "gitlink" THEN S_IFGITLINK ELSE S_IFREG,
               BlobOid(k),
               kind # "present",
               IF kind = "unmerged" THEN 2 ELSE 0)

\* the kinds of entry each path comes with, "absent" for an index without it
KindsOf ==
    <<{"absent", "skip", "present"},
      EntryKinds \cup {"absent"},
      {"absent", "skip", "gitlink"},
      {"absent", "skip", "present", "unmerged"},
      {"absent", "skip", "present"}>>

\* every index over a sublist of the paths, in path order
FullIndexUniverse ==
    {LET all == [k \in 1..Len(PathUniverse) |-> [k |-> k, kind |-> sel[k]]]
         kept == SelectSeq(all, LAMBDA x : x.kind # "absent")
     IN [j \in 1..Len(kept) |-> EntryOfKind(kept[j].k, kept[j].kind)] :
        sel \in {f \in [1..Len(PathUniverse) -> EntryKinds \cup {"absent"}] :
                    \A k \in 1..Len(PathUniverse) : f[k] \in KindsOf[k]}}

\* the paths expand_to_path is called with: b/e/f, d/g and z
ExpandPathUniverse == {PathBEF, PathDG, <<122>>}

ConeFile(recursive) ==
    [ok |-> TRUE, use_cone_patterns |-> TRUE, full_cone |-> FALSE, recursive |-> recursive]

PatternFileUniverse ==
    {ConeFile({}), ConeFile({DirB}), ConeFile({DirBE}),
     [ConeFile({}) EXCEPT !.full_cone = TRUE]}

DefaultRepo ==
    [core_apply_sparse_checkout |-> TRUE, core_sparse_checkout_cone |-> TRUE,
     test_env |-> -1, settings_sparse_index |-> TRUE, patterns_file |-> ConeFile({})]

\* the configurations that keep convert_to_sparse from converting
OtherRepos ==
    {[DefaultRepo EXCEPT !.core_apply_sparse_checkout = FALSE],
     [DefaultRepo EXCEPT !.core_sparse_checkout_cone = FALSE],
     [DefaultRepo EXCEPT !.settings_sparse_index = FALSE],
     [DefaultRepo EXCEPT !.test_env = 0],
     [DefaultRepo EXCEPT !.test_env = 1, !.settings_sparse_index = FALSE],
     [DefaultRepo EXCEPT !.patterns_file = [ConeFile({}) EXCEPT !.ok = FALSE]],
     [DefaultRepo EXCEPT !.patterns_file = [ConeFile({}) EXCEPT !.use_cone_patterns = FALSE]]}

FullIndex(cache, split_index, fsmonitor) ==
    [cache |-> cache, cache_nr |-> Len(cache), sparse_index |-> FALSE,
     split_index |-> split_index, sparse_checkout_patterns |-> NoPatterns,
     cache_tree |-> NoCacheTree, drop_cache_tree |-> FALSE, fsmonitor |-> fsmonitor]

\* the index of a process that uses no index
IndexIdle ==
    /\ istate = FullIndex(<<>>, FALSE, FALSE)
    /\ repo = DefaultRepo
    /\ full0 = <<>>
    /\ sres = NoSparseOp
    /\ in_expand_to_path = FALSE
    /\ xp = NoExpand
    /\ efi = NoEfi

----------------------------------------------------------------------------
(* sparse-checkout.c: the cone-mode pattern list, the sparse-checkout file *)
(* and the locks taken to write it                                         *)

\* is_glob_special: '*', '?', '[' and '\'
is_glob_special(c) == c \in {42, 63, 91, 92}

RECURSIVE escaped_pattern(_)
escaped_pattern(pattern) ==
    IF pattern = <<>> THEN <<>>
    ELSE (IF is_glob_special(Head(pattern)) THEN <<92>> ELSE <<>>)
            \o <<Head(pattern)>> \o escaped_pattern(Tail(pattern))

\* strbuf_trim, strbuf_trim_trailing_dir_sep and strbuf_normalize_path: the
\* line without the blanks at its ends, without its trailing slashes and
\* with each run of slashes as one slash
RECURSIVE strbuf_trim(_)
strbuf_trim(line) ==
    IF line = <<>> THEN line
    ELSE IF Head(line) = 32 THEN strbuf_trim(Tail(line))
    ELSE IF line[Len(line)] = 32 THEN strbuf_trim(SubSeq(line, 1, Len(line) - 1))
    ELSE line

RECURSIVE strbuf_trim_trailing_dir_sep(_)
strbuf_trim_trailing_dir_sep(line) ==
    IF line # <<>> /\ line[Len(line)] = Slash
    THEN strbuf_trim_trailing_dir_sep(SubSeq(line, 1, Len(line) - 1))
    ELSE line

RECURSIVE strbuf_normalize_path(_)
strbuf_normalize_path(line) ==
    IF Len(line) < 2 THEN line
    ELSE IF line[1] = Slash /\ line[2] = Slash THEN strbuf_normalize_path(Tail(line))
    ELSE <<Head(line)>> \o strbuf_normalize_path(Tail(line))

\* strrchr(pattern, '/') - pattern, -1 when the pattern has no slash
LastSlash(pattern) ==
    LET at == {k \in 1..Len(pattern) : pattern[k] = Slash}
    IN IF at = {} THEN -1 ELSE (CHOOSE k \in at : \A j \in at : j <= k) - 1

\* the loop of insert_recursive_pattern: the patterns it adds to the parent
\* hashmap, for a pattern that begins with a slash
RECURSIVE ParentsOf(_)
ParentsOf(pattern) ==
    IF Len(pattern) = 0 \/ LastSlash(pattern) <= 0 THEN {}
    ELSE LET parent == SubSeq(pattern, 1, LastSlash(pattern))
         IN {parent} \cup ParentsOf(parent)

\* the recursive hashmap keeps every pattern added, the parent hashmap one
\* entry for each pattern
insert_recursive_pattern(list, path) ==
    [recursive |-> Append(list.recursive, path),
     parent |-> list.parent \cup ParentsOf(path)]

strbuf_to_cone_pattern(line, list) ==
    LET path == strbuf_normalize_path(strbuf_trim_trailing_dir_sep(strbuf_trim(line)))
    IN IF Len(path) = 0 THEN list
       ELSE insert_recursive_pattern(list, IF path[1] # Slash THEN <<Slash>> \o path ELSE path)

\* hashmap_contains_parent: some proper leading directory of the path is in
\* the map
hashmap_contains_parent(map, path) ==
    \E k \in 2..Len(path) : path[k] = Slash /\ SubSeq(path, 1, k - 1) \in map

\* string_list_insert: the string put at its place in a sorted list, unless
\* the list holds it
string_list_insert(sl, string) ==
    IF \E k \in 1..Len(sl) : sl[k] = string THEN sl
    ELSE LET below == Cardinality({k \in 1..Len(sl) : strcmp(sl[k], string) < 0})
         IN SubSeq(sl, 1, below) \o <<string>> \o SubSeq(sl, below + 1, Len(sl))

\* the string list made of the entries of a hashmap, whose iteration order
\* is any order
RECURSIVE StringListOf(_)
StringListOf(entries) ==
    IF entries = {} THEN <<>>
    ELSE LET pe == CHOOSE e \in entries : TRUE
         IN string_list_insert(StringListOf(entries \ {pe}), pe)

\* every entry of the parent hashmap, without the tests of the first loop
ConeParents_All(list) == list.parent

\* the first loop of write_cone_to_file: the parents that are not recursive
\* patterns and have no parent among the recursive patterns
ConeParents(list) ==
    LET recursive == {list.recursive[k] : k \in 1..Len(list.recursive)}
    IN {pe \in list.parent : pe \notin recursive /\ ~ hashmap_contains_parent(recursive, pe)}

\* the second loop: the recursive patterns without a parent among them
ConeRecursive(list) ==
    LET recursive == {list.recursive[k] : k \in 1..Len(list.recursive)}
    IN {pe \in recursive : ~ hashmap_contains_parent(recursive, pe)}

\* the lines write_cone_to_file prints: "/*" and "!/*/", "<parent>/" and
\* "!<parent>/*/" for each parent, "<pattern>/" for each recursive pattern
write_cone_to_file(list) ==
    LET parents == StringListOf(ConeParents(list))
        dirs == StringListOf(ConeRecursive(list))
    IN <<<<Slash, 42>>, <<33, Slash, 42, Slash>>>>
         \o Concat([i \in 1..Len(parents) |->
                      LET pattern == escaped_pattern(parents[i])
                      IN IF Len(pattern) # 0
                         THEN <<pattern \o <<Slash>>, <<33>> \o pattern \o <<Slash, 42, Slash>>>>
                         ELSE <<>>])
         \o [i \in 1..Len(dirs) |-> escaped_pattern(dirs[i]) \o <<Slash>>]

\* enum update_sparsity_result
UPDATE_SPARSITY_SUCCESS == 0
UPDATE_SPARSITY_WARNINGS == 1
\* The two failures of update_sparsity are the negative results: the
\* code compares the result with the two names above only.
UpdateSparsityResults == {UPDATE_SPARSITY_SUCCESS, UPDATE_SPARSITY_WARNINGS, -1, -2}

NoPatternList == [recursive |-> <<>>, parent |-> {}]

\* the sparse-checkout file as 'sparse-checkout init --cone' leaves it
InitialSparseCheckoutFile == <<<<Slash, 42>>, <<33, Slash, 42, Slash>>>>

\* a lock is "none" before it is taken, "held" while it is held, and then
\* "committed" or "rolled back"
NoSparseCheckout ==
    [pc |-> "set", args |-> <<>>, file |-> InitialSparseCheckoutFile,
     lk |-> "none", lock_file |-> "none", call |-> 0, refresh_workdir |-> FALSE,
     result |-> 0, ret |-> 0]

ConeIdle ==
    /\ patterns = NoPatternList
    /\ sc = NoSparseCheckout

\* die(): the process ends and its lock files are removed on the way out
DieSparseCheckout(run) ==
    [run EXCEPT !.pc = "die",
                !.lk = IF @ = "held" THEN "rolled back" ELSE @,
                !.lock_file = IF @ = "held" THEN "rolled back" ELSE @]

\* the index lock left held when update_sparsity fails
UwdRelease_CommitOnly(result) ==
    IF result = UPDATE_SPARSITY_SUCCESS THEN "committed" ELSE "held"

\* the end of update_working_directory: write_locked_index with COMMIT_LOCK
\* on success, rollback_lock_file otherwise
UwdRelease(result) ==
    IF result = UPDATE_SPARSITY_SUCCESS THEN "committed" ELSE "rolled back"

\* sparse_checkout_set in cone mode: one argument turned into a pattern
SetArgument(line) ==
    /\ sc.pc = "set"
    /\ Len(sc.args) < MaxLines
    /\ patterns' = strbuf_to_cone_pattern(line, patterns)
    /\ sc' = [sc EXCEPT !.args = Append(@, line)]
    /\ UNCHANGED <<midxVars, indexVars>>

\* write_patterns_to_sparse_checkout up to the first call of
\* update_working_directory; the leading directories can be made or not,
\* and the lock of the sparse-checkout file can be taken or not
WpBegin(refresh_workdir, dirs_ok, lock_ok) ==
    /\ sc.pc = "set"
    /\ sc' = IF ~ dirs_ok \/ ~ lock_ok THEN DieSparseCheckout(sc)
             ELSE [sc EXCEPT !.lk = "held", !.refresh_workdir = refresh_workdir,
                             !.call = IF refresh_workdir THEN 1 ELSE 0,
                             !.pc = IF refresh_workdir THEN "uwd" ELSE "write"]
    /\ UNCHANGED <<midxVars, indexVars, patterns>>

\* update_working_directory up to repo_hold_locked_index, which dies when
\* the index lock cannot be taken
UwdLock(lock_ok) ==
    /\ sc.pc = "uwd"
    /\ sc' = IF ~ lock_ok THEN DieSparseCheckout(sc)
             ELSE [sc EXCEPT !.lock_file = "held", !.pc = "uwd locked"]
    /\ UNCHANGED <<midxVars, indexVars, patterns>>

\* update_working_directory from update_sparsity to its return
UwdUpdate(update) ==
    /\ sc.pc = "uwd locked"
    /\ LET result == IF update = UPDATE_SPARSITY_WARNINGS THEN UPDATE_SPARSITY_SUCCESS ELSE update
       IN sc' = [sc EXCEPT !.lock_file = UwdRelease(result),
                           !.result = IF sc.call = 1 THEN result ELSE @,
                           !.ret = IF sc.call = 2 THEN sc.result ELSE @,
                           !.pc = IF sc.call = 1 THEN "uwd returned" ELSE "returned"]
    /\ UNCHANGED <<midxVars, indexVars, patterns>>

\* if (result): the lock of the file is rolled back, the pattern list is
\* cleared and update_working_directory(NULL) is called
WpFail ==
    /\ sc.pc = "uwd returned"
    /\ sc.result # 0
    /\ sc' = [sc EXCEPT !.lk = "rolled back", !.call = 2, !.pc = "uwd"]
    /\ patterns' = NoPatternList
    /\ UNCHANGED <<midxVars, indexVars>>

\* the patterns are written to the lock file and the lock is committed;
\* commit_lock_file rolls the lock back when the rename fails
WpWrite(commit_ok) ==
    /\ \/ sc.pc = "write"
       \/ sc.pc = "uwd returned" /\ sc.result = 0
    /\ sc' = [sc EXCEPT !.file = IF commit_ok THEN write_cone_to_file(patterns) ELSE @,
                        !.lk = IF commit_ok THEN "committed" ELSE "rolled back",
                        !.ret = 0,
                        !.pc = "returned"]
    /\ patterns' = NoPatternList
    /\ UNCHANGED <<midxVars, indexVars>>

----------------------------------------------------------------------------
(* The specification of the builder and the reader *)

Init ==
    /\ ConeIdle
    /\ pack_names \in SeqsUpTo(PackNameUniverse, MaxPacks)
    /\ objects \in SeqsUpTo(EntryUniverse(Len(pack_names)), MaxObjects)
    /\ BuilderInput(pack_names, objects)
    /\ midx_name \in {NoName, GivenName}
    /\ core_midx \in BOOLEAN
    /\ wpc = "start"
    /\ w = NoLocals
    /\ fs = <<>>
    /\ m = NoReader
    /\ rpc = "none"
    /\ lk = NoLookup
    /\ disk_packs = {pack_names[i] : i \in 1..Len(pack_names)}
    /\ midx_head = NoName
    /\ corrupted = NoDamage
    /\ midxed_git = <<>>
    /\ verify_midx_error = 0
    /\ vres = NoVerify
    /\ proc = "run"
    /\ IndexIdle

Next ==
    \/ WmfDisabled
    \/ WmfBegin
    \/ WmfWrite
    \/ WmfFinish
    \/ GetMidxedGit
    \/ \E oid \in OidUniverse : LookupOid(oid)

Spec == Init /\ [][Next]_vars

----------------------------------------------------------------------------
(* Damage to a built file, and the packs of the pack directory *)

SetBytes(data, off, bytes) ==
    [i \in 1..Len(data) |-> IF i > off /\ i <= off + Len(bytes) THEN bytes[i - off] ELSE data[i]]

\* the file with its trailing hash computed again
RehashFile(data) ==
    LET body == SubSeq(data, 1, Len(data) - GIT_MAX_RAWSZ)
    IN  body \o HashOf(body)

\* the chunk ids a chunk-table entry can lose
DropKinds ==
    [drop_PLOO |-> MIDX_CHUNKID_PACKLOOKUP, drop_PNAM |-> MIDX_CHUNKID_PACKNAMES,
     drop_OIDF |-> MIDX_CHUNKID_OIDFANOUT, drop_OIDL |-> MIDX_CHUNKID_OIDLOOKUP,
     drop_OOFF |-> MIDX_CHUNKID_OBJECTOFFSETS]

\* the kinds of damage; those of the second set keep the length of the file,
\* and may come with a trailing hash computed again
CutKinds == {"short", "truncate", "cut_tail"}
PatchKinds == {"magic", "version", "hash_version", "hash_len", "fanout", "pack_id",
               "offset", "oid_order"} \cup DOMAIN DropKinds

\* corrupt_data: the file with bytes replaced or removed
Damaged(data, kind) ==
    LET num_chunks == data[12]
        at(id) == ChunkPointer(data, num_chunks, id)
        entry(id) == CHOOSE i \in 0..num_chunks : Bytes(data, MIDX_HEADER_SIZE + 12 * i, 4) = id
        oidl == at(MIDX_CHUNKID_OIDLOOKUP)
        ooff == at(MIDX_CHUNKID_OBJECTOFFSETS)
        oidf == at(MIDX_CHUNKID_OIDFANOUT)
        nr == U32(Bytes(data, oidf + 255 * 4, 4))
    IN  CASE kind = "short" -> SubSeq(data, 1, MIDX_MIN_SIZE - 1)
          [] kind = "truncate" ->
                SubSeq(data, 1, Len(data) - GIT_MAX_RAWSZ - 1)
                    \o SubSeq(data, Len(data) - GIT_MAX_RAWSZ + 1, Len(data))
          [] kind = "cut_tail" -> SubSeq(data, 1, Len(data) - 1)
          [] kind = "magic" -> SetBytes(data, 0, <<78>>)
          [] kind = "version" -> SetBytes(data, 7, <<2>>)
          [] kind = "hash_version" -> SetBytes(data, 8, <<2>>)
          [] kind = "hash_len" -> SetBytes(data, 9, <<32>>)
          [] kind \in DOMAIN DropKinds ->
                SetBytes(data, MIDX_HEADER_SIZE + 12 * entry(DropKinds[kind]), <<88, 88, 88, 88>>)
          [] kind = "fanout" -> SetBytes(data, oidf + 3, <<(data[oidf + 4] + 1) % 256>>)
          [] kind = "pack_id" -> IF nr = 0 THEN data ELSE SetBytes(data, ooff, Be32(7))
          [] kind = "offset" ->
                IF nr = 0 THEN data ELSE SetBytes(data, ooff + 7, <<(data[ooff + 8] + 1) % 256>>)
          [] kind = "oid_order" ->
                IF nr < 2 THEN data
                ELSE SetBytes(SetBytes(data, oidl, Bytes(data, oidl + MIDX_OID_LEN, MIDX_OID_LEN)),
                              oidl + MIDX_OID_LEN, Bytes(data, oidl, MIDX_OID_LEN))

\* the built file is damaged on disk, before any reader maps it
CorruptFile(kind, rehash) ==
    /\ wpc = "done"
    /\ core_midx
    /\ corrupted = NoDamage
    /\ rpc = "none"
    /\ ~vres.ran
    /\ midxed_git = <<>>
    /\ \E data \in {Damaged(fs[w.ret], kind)} :
        /\ data # fs[w.ret]
        /\ fs' = PutFile(fs, w.ret, IF rehash THEN RehashFile(data) ELSE data)
    /\ corrupted' = [kind |-> kind, rehash |-> rehash]
    /\ UNCHANGED <<pack_names, objects, midx_name, core_midx, wpc, w, m, rpc, lk,
                   disk_packs, midx_head, regVars, proc, indexVars, coneVars>>

\* the built file is removed
UnlinkFile ==
    /\ wpc = "done"
    /\ core_midx
    /\ corrupted = NoDamage
    /\ rpc = "none"
    /\ ~vres.ran
    /\ midxed_git = <<>>
    /\ fs' = RemoveFile(fs, w.ret)
    /\ corrupted' = [kind |-> "unlink", rehash |-> FALSE]
    /\ UNCHANGED <<pack_names, objects, midx_name, core_midx, wpc, w, m, rpc, lk,
                   disk_packs, midx_head, regVars, proc, indexVars, coneVars>>

\* a pack and its index are removed from the pack directory
RemovePack(name) ==
    /\ wpc = "done"
    /\ name \in disk_packs
    /\ disk_packs' = disk_packs \ {name}
    /\ UNCHANGED <<pack_names, objects, midx_name, core_midx, wpc, w, fs, m, rpc, lk,
                   midx_head, corrupted, regVars, proc, indexVars, coneVars>>

\* the index of a pack of the directory: the entries the builder was given for it
PackIdx(name) ==
    {[oid |-> objects[i].oid, offset |-> objects[i].offset] :
        i \in {j \in 1..Len(objects) : w.arg_names[objects[j].pack_int_id + 1] = name}}

----------------------------------------------------------------------------
(* prepare_midx_pack and midx_verify *)

\* add_packed_git: a handle with no descriptor open when the pack is in the
\* directory, NULL when it is not
add_packed_git(name, disk) ==
    IF name \in disk THEN [null |-> FALSE, name |-> name, fd_open |-> FALSE] ELSE NullPack

\* m->hdr->num_packs, the header field as a little-endian host reads it
RawNumPacks(mg) ==
    mg.data[13] + 256 * mg.data[14] + 65536 * mg.data[15] + 16777216 * (mg.data[16] % 64)

\* the slot is filled and 0 is returned whether or not add_packed_git gave a handle
prepare_midx_pack_NoNullCheck(mg, pack_int_id, disk) ==
    [ret |-> 0,
     midx |-> [mg EXCEPT !.packs[pack_int_id + 1] =
                            add_packed_git(mg.pack_names[pack_int_id + 1], disk)]]

\* the pack is opened at every call, whether or not the slot holds a handle
prepare_midx_pack_Reopen(mg, pack_int_id, disk) ==
    IF pack_int_id >= RawNumPacks(mg) THEN [ret |-> 1, midx |-> mg]
    ELSE LET p == add_packed_git(mg.pack_names[pack_int_id + 1], disk)
         IN  [ret |-> IF p.null THEN 1 ELSE 0,
              midx |-> [mg EXCEPT !.packs[pack_int_id + 1] = p]]

\* prepare_midx_pack: the value returned and the reader with the slot filled
prepare_midx_pack(mg, pack_int_id, disk) ==
    IF pack_int_id >= RawNumPacks(mg) THEN [ret |-> 1, midx |-> mg]
    ELSE IF ~mg.packs[pack_int_id + 1].null THEN [ret |-> 0, midx |-> mg]
    ELSE LET p == add_packed_git(mg.pack_names[pack_int_id + 1], disk)
         IN  [ret |-> IF p.null THEN 1 ELSE 0,
              midx |-> [mg EXCEPT !.packs[pack_int_id + 1] = p]]

\* the reports of the object loop of midx_verify
VerifyObjects(mg) ==
    LET n == mg.num_objects
        oid(i) == Bytes(mg.data, mg.chunk_oid_lookup + mg.hash_len * i, GIT_MAX_RAWSZ)
        first(i) == oid(i)[1]
        cur(i) == IF i = 0 THEN 0
                  ELSE CHOOSE c \in {first(j) : j \in 0..(i - 1)} :
                           \A j \in 0..(i - 1) : first(j) <= c
        d(i) == nth_midxed_object_details(mg, i)
        valid(i) == d(i).pack_int_id < mg.num_packs
        idx(i) == PackIdx(mg.pack_names[d(i).pack_int_id + 1])
    IN  {"fanout" : i \in {k \in 0..(n - 1) :
                             \E pos \in cur(k)..(first(k) - 1) : FanoutAt(mg, pos) # k}}
        \cup {"order" : i \in {k \in 1..(n - 1) : oidcmp(oid(k - 1), oid(k)) >= 0}}
        \cup {"pack-int-id" : i \in {k \in 0..(n - 1) : ~valid(k)}}
        \cup {"not present" : i \in {k \in 0..(n - 1) :
                                       valid(k) /\ \A e \in idx(k) : e.oid # oid(k)}}
        \cup {"offset" : i \in {k \in 0..(n - 1) :
                                  valid(k) /\ \E e \in idx(k) :
                                      e.oid = oid(k) /\ e.offset # d(k).offset}}

\* the value returned with the static flag alone
VerifyReturn_FlagOnly(error, checksum_fail) == error

\* return verify_midx_error | checksum_fail;
VerifyReturn(error, checksum_fail) == IF error = 1 \/ checksum_fail = 1 THEN 1 ELSE 0

\* midx_verify on a file, entered with the static flag at error0: the outcome
\* ("die" when the load dies), the reports made, the flag left, the value returned
midx_verify(files, name, error0, disk) ==
    LET r == LoadMidxedGitOne(files, name)
        mg == r.midx
        Result(reports, error, checksum_fail) ==
            [ran |-> TRUE, name |-> name, status |-> "ok", reports |-> reports, entered |-> error0,
             error |-> error, ret |-> VerifyReturn(error, checksum_fail)]
    IN
    IF r.status = "die"
    THEN [ran |-> TRUE, name |-> name, status |-> "die", reports |-> {}, entered |-> error0,
          error |-> error0, ret |-> 128]
    ELSE IF r.status = "absent" THEN Result({"failed to find"}, 1, 0)
    ELSE
    LET bad_sum == HashOf(SubSeq(mg.data, 1, mg.data_len - mg.hash_len))
                       # Bytes(mg.data, mg.data_len - mg.hash_len, GIT_MAX_RAWSZ)
        checksum_fail == IF bad_sum THEN 1 ELSE 0
        rep1 == IF bad_sum THEN {"checksum"} ELSE {}
        error1 == IF bad_sum THEN 0 ELSE error0
        rep2 == {"hash version" : x \in {v \in {mg.hash_version} : v # MIDX_OID_VERSION}}
                \cup {"hash length" : x \in {v \in {mg.hash_len} : v # MIDX_OID_LEN}}
        error2 == IF rep2 # {} THEN 1 ELSE error1
        rep3 == {"missing OID Lookup" : x \in {v \in {mg.chunk_oid_lookup} : v = NULL}}
                \cup {"missing Object Offset" : x \in {v \in {mg.chunk_object_offsets} : v = NULL}}
        error3 == IF rep3 # {} THEN 1 ELSE error2
        rep4 == {"failed to prepare pack" :
                     i \in {k \in 0..(mg.num_packs - 1) :
                               prepare_midx_pack(mg, k, disk).ret # 0}}
        error4 == IF rep4 # {} THEN 1 ELSE error3
    IN
    IF error2 = 1 THEN Result(rep1 \cup rep2, error2, checksum_fail)
    ELSE IF error3 = 1 THEN Result(rep1 \cup rep2 \cup rep3, error3, checksum_fail)
    ELSE IF error4 = 1 THEN Result(rep1 \cup rep2 \cup rep3 \cup rep4, error4, checksum_fail)
    ELSE LET rep5 == VerifyObjects(mg)
         IN  Result(rep1 \cup rep5, IF rep5 # {} THEN 1 ELSE error4, checksum_fail)

\* a MIDX file name under which the pack directory holds no file
MissingMidxName == [kind |-> "midx", id |-> <<0>>]

\* git midx --verify on the file the builder returned or, with --midx-id, on
\* a file the pack directory does not hold
MidxVerify(name) ==
    /\ wpc = "done"
    /\ core_midx
    /\ proc = "run"
    /\ \E v \in {midx_verify(fs, name, verify_midx_error, disk_packs)} :
        /\ vres' = v
        /\ verify_midx_error' = v.error
        /\ proc' = IF v.status = "die" THEN "die" ELSE proc
    /\ UNCHANGED <<pack_names, objects, midx_name, core_midx, wpc, w, fs, m, rpc, lk,
                   envVars, midxed_git, indexVars, coneVars>>

----------------------------------------------------------------------------
(* The specification of the readers of damaged files *)

\* the arguments of the builds whose files are damaged: no pack and no object;
\* two packs given out of order with one object each; one pack with two
\* objects at large offsets
ReadInputs ==
    {<<<<>>, <<>>>>,
     <<<<PackName2, PackName1>>,
       <<[oid |-> OidOf(0, 1), pack_int_id |-> 1, offset |-> Off7fffffff, pack_mtime |-> PackMtimeOf(1)],
         [oid |-> OidOf(170, 0), pack_int_id |-> 0, offset |-> Off80000000, pack_mtime |-> PackMtimeOf(0)]>>>>,
     <<<<PackName1>>,
       <<[oid |-> OidOf(170, 0), pack_int_id |-> 0, offset |-> Off100000000, pack_mtime |-> PackMtimeOf(0)],
         [oid |-> OidOf(170, 1), pack_int_id |-> 0, offset |-> Off80000000, pack_mtime |-> PackMtimeOf(0)]>>>>}

InitRead ==
    /\ ConeIdle
    /\ \E input \in ReadInputs :
        /\ pack_names = input[1]
        /\ objects = input[2]
    /\ midx_name \in {NoName, GivenName}
    /\ core_midx \in BOOLEAN
    /\ wpc = "start"
    /\ w = NoLocals
    /\ fs = <<>>
    /\ m = NoReader
    /\ rpc = "none"
    /\ lk = NoLookup
    /\ disk_packs = {pack_names[i] : i \in 1..Len(pack_names)}
    /\ midx_head = NoName
    /\ corrupted = NoDamage
    /\ midxed_git = <<>>
    /\ verify_midx_error = 0
    /\ vres = NoVerify
    /\ proc = "run"
    /\ IndexIdle

NextRead ==
    \/ WmfDisabled
    \/ WmfBegin
    \/ WmfWrite
    \/ WmfFinish
    \/ \E kind \in CutKinds : CorruptFile(kind, FALSE)
    \/ \E kind \in PatchKinds, rehash \in BOOLEAN : CorruptFile(kind, rehash)
    \/ UnlinkFile
    \/ \E name \in PackNameUniverse : RemovePack(name)
    \/ GetMidxedGit
    \/ \E oid \in OidUniverse : LookupOid(oid)
    \/ \E name \in {w.ret, MissingMidxName} : MidxVerify(name)

SpecRead == InitRead /\ [][NextRead]_vars

----------------------------------------------------------------------------
(* The registry of readers and fill_pack_entry_midx *)

\* git midx --write --update-head: the midx-head file names the file just built
UpdateMidxHead ==
    /\ wpc = "done"
    /\ core_midx
    /\ w.rename_needed
    /\ midx_head = NoName
    /\ midx_head' = w.final_hash
    /\ UNCHANGED <<pack_names, objects, midx_name, core_midx, wpc, w, fs, m, rpc, lk,
                   disk_packs, corrupted, regVars, proc, indexVars, coneVars>>

\* the object directories: the repository's own, whose pack directory holds
\* the files of the model, and an alternate, whose pack directory holds no
\* MIDX file
ObjDirUniverse == {"objects", "alternate"}

\* midxed_git = load_midxed_git_one(...) with 0 returned
RegistryAfterFailedLoad(chain) == <<>>

\* prepare_midxed_git_objdir.  Every reader of the registry is a reader of
\* the repository's pack directory; head_exists is whether the midx-head of
\* the alternate names a file.  A load that returns 0 is followed by the
\* store midxed_git->next = m through the null pointer, which ends the
\* process.
PrepareMidxedGitObjdir(obj_dir, head_exists) ==
    /\ wpc = "done"
    /\ proc = "run"
    /\ IF ~core_midx \/ (obj_dir = "objects" /\ midxed_git # <<>>)
       THEN UNCHANGED <<midxed_git, proc>>
       ELSE IF obj_dir = "objects" /\ midx_head # NoName
       THEN \E r \in {LoadMidxedGitOne(fs, MidxFileName(midx_head))} :
            /\ midxed_git' = CASE r.status = "ok" -> <<r.midx>> \o midxed_git
                                [] r.status = "die" -> midxed_git
                                [] r.status = "absent" -> RegistryAfterFailedLoad(midxed_git)
            /\ proc' = CASE r.status = "ok" -> proc
                         [] r.status = "die" -> "die"
                         [] r.status = "absent" -> "crash"
       ELSE IF obj_dir = "alternate" /\ head_exists
       THEN /\ midxed_git' = RegistryAfterFailedLoad(midxed_git)
            /\ proc' = "crash"
       ELSE UNCHANGED <<midxed_git, proc>>
    /\ UNCHANGED <<pack_names, objects, midx_name, core_midx, wpc, w, fs, m, rpc, lk,
                   envVars, verify_midx_error, vres, indexVars, coneVars>>

\* close_all_midx: every reader is closed and freed, the head is cleared
CloseAllMidx ==
    /\ wpc = "done"
    /\ proc = "run"
    /\ midxed_git' = <<>>
    /\ UNCHANGED <<pack_names, objects, midx_name, core_midx, wpc, w, fs, m, rpc, lk,
                   envVars, verify_midx_error, vres, proc, indexVars, coneVars>>

\* is_pack_valid: a handle with a descriptor open is valid; otherwise the pack
\* is opened, which succeeds when it is still in the directory
is_pack_valid(p, disk) ==
    IF p.fd_open THEN [ok |-> TRUE, p |-> p]
    ELSE IF p.name \in disk THEN [ok |-> TRUE, p |-> [p EXCEPT !.fd_open = TRUE]]
    ELSE [ok |-> FALSE, p |-> p]

\* find_pack_entry_midx: "die", "crash" (a read through a null chunk pointer),
\* or the value returned with the reader, the pack id and the offset
find_pack_entry_midx(oid, mg, disk) ==
    IF mg.chunk_oid_lookup = NULL THEN [status |-> "crash", ret |-> 0, midx |-> mg]
    ELSE LET b == bsearch_midx(mg, oid)
         IN
         IF b.found = 0 THEN [status |-> "ok", ret |-> 0, midx |-> mg]
         ELSE IF mg.chunk_object_offsets = NULL /\ b.pos < mg.num_objects
         THEN [status |-> "crash", ret |-> 0, midx |-> mg]
         ELSE LET d == nth_midxed_object_details(mg, b.pos)
              IN
              IF d.null THEN [status |-> "ok", ret |-> 0, midx |-> mg]
              ELSE IF d.pack_int_id >= mg.num_packs
              THEN [status |-> "die", ret |-> 0, midx |-> mg]
              ELSE LET r == prepare_midx_pack(mg, d.pack_int_id, disk)
                   IN  IF r.ret # 0 THEN [status |-> "ok", ret |-> 0, midx |-> r.midx]
                       ELSE [status |-> "ok", ret |-> 1, midx |-> r.midx,
                             pack_int_id |-> d.pack_int_id, offset |-> d.offset]

\* the while loop of fill_pack_entry_midx from the k-th reader of the registry
RECURSIVE FillFrom(_, _, _, _)
FillFrom(oid, chain, k, disk) ==
    IF k > Len(chain) THEN [status |-> "ok", ret |-> 0, chain |-> chain]
    ELSE LET f == find_pack_entry_midx(oid, chain[k], disk)
             next == [chain EXCEPT ![k] = f.midx]
         IN
         IF f.status # "ok" THEN [status |-> f.status, ret |-> 0, chain |-> chain]
         ELSE IF f.ret = 0 THEN FillFrom(oid, next, k + 1, disk)
         ELSE LET p == f.midx.packs[f.pack_int_id + 1]
              IN  IF p.null THEN [status |-> "crash", ret |-> 0, chain |-> next]
                  ELSE LET v == is_pack_valid(p, disk)
                           after == [next EXCEPT ![k].packs[f.pack_int_id + 1] = v.p]
                       IN  IF ~v.ok THEN [status |-> "ok", ret |-> 0, chain |-> after]
                           ELSE [status |-> "ok", ret |-> 1, chain |-> after,
                                 pack |-> v.p.name, offset |-> f.offset]

\* fill_pack_entry_midx
FillPackEntryMidx(oid) ==
    /\ wpc = "done"
    /\ proc = "run"
    /\ IF ~core_midx
       THEN /\ lk' = [op |-> "fill", oid |-> oid, ret |-> 0]
            /\ UNCHANGED <<midxed_git, proc>>
       ELSE \E r \in {FillFrom(oid, midxed_git, 1, disk_packs)} :
            /\ midxed_git' = r.chain
            /\ proc' = IF r.status = "ok" THEN proc ELSE r.status
            /\ lk' = IF r.status # "ok" THEN [op |-> r.status, oid |-> oid]
                     ELSE IF r.ret = 0 THEN [op |-> "fill", oid |-> oid, ret |-> 0]
                     ELSE [op |-> "fill", oid |-> oid, ret |-> 1,
                           pack |-> r.pack, offset |-> r.offset]
    /\ UNCHANGED <<pack_names, objects, midx_name, core_midx, wpc, w, fs, m, rpc,
                   envVars, verify_midx_error, vres, indexVars, coneVars>>

\* the object store closes the descriptor of a pack handle it shares with a reader
ClosePackFd(k, id) ==
    /\ proc = "run"
    /\ midxed_git[k].packs[id].fd_open
    /\ midxed_git' = [midxed_git EXCEPT ![k].packs[id].fd_open = FALSE]
    /\ UNCHANGED <<pack_names, objects, midx_name, core_midx, wpc, w, fs, m, rpc, lk,
                   envVars, verify_midx_error, vres, proc, indexVars, coneVars>>

NextLookup ==
    \/ WmfDisabled
    \/ WmfBegin
    \/ WmfWrite
    \/ WmfFinish
    \/ UpdateMidxHead
    \/ UnlinkFile
    \/ \E name \in PackNameUniverse : RemovePack(name)
    \/ \E obj_dir \in ObjDirUniverse, head_exists \in BOOLEAN :
          PrepareMidxedGitObjdir(obj_dir, head_exists)
    \/ CloseAllMidx
    \/ \E oid \in OidUniverse : FillPackEntryMidx(oid)
    \/ \E k \in 1..Len(midxed_git) : \E id \in 1..midxed_git[k].num_packs : ClosePackFd(k, id)

SpecLookup == InitRead /\ [][NextLookup]_vars

----------------------------------------------------------------------------
(* The specification of the sparse index *)

\* the state of a process that uses no multi-pack index
MidxIdle ==
    /\ pack_names = <<>>
    /\ objects = <<>>
    /\ midx_name = NoName
    /\ core_midx = FALSE
    /\ wpc = "start"
    /\ w = NoLocals
    /\ fs = <<>>
    /\ m = NoReader
    /\ rpc = "none"
    /\ lk = NoLookup
    /\ disk_packs = {}
    /\ midx_head = NoName
    /\ corrupted = NoDamage
    /\ midxed_git = <<>>
    /\ verify_midx_error = 0
    /\ vres = NoVerify
    /\ proc = "run"

\* the index of scenario S4: a, b/c, b/d and b/e/f, all skip-worktree
IndexS4 == [k \in 1..4 |-> EntryOfKind(k, "skip")]

\* every index with every cone, in a repository set up for the sparse
\* index; and the index of S4 in the other repositories and as a split index
InitSparse ==
    /\ ConeIdle
    /\ MidxIdle
    /\ \/ /\ \E file \in PatternFileUniverse : repo = [DefaultRepo EXCEPT !.patterns_file = file]
          /\ \E cache \in FullIndexUniverse : istate = FullIndex(cache, FALSE, TRUE)
       \/ /\ repo \in OtherRepos
          /\ istate = FullIndex(IndexS4, FALSE, TRUE)
       \/ /\ repo = DefaultRepo
          /\ istate = FullIndex(IndexS4, TRUE, TRUE)
    /\ full0 = istate.cache
    /\ sres = NoSparseOp
    /\ in_expand_to_path = FALSE
    /\ xp = NoExpand
    /\ efi = NoEfi

NextSparse ==
    \/ \E cache_tree_ok \in BOOLEAN : ConvertToSparse(cache_tree_ok)
    \/ EfiBegin
    \/ EfiEntry
    \/ EfiInstall
    \/ \E path \in ExpandPathUniverse : ExpandToPath(path)
    \/ ExpandLookup
    \/ ExpandCleanup

SpecSparse == InitSparse /\ [][NextSparse]_vars

----------------------------------------------------------------------------
(* The specification of sparse-checkout set in cone mode *)

\* the lines given: "a", "/a/b/", "a/b/c", "e/f", "d*" and the empty line
LineUniverse ==
    {<<97>>, <<Slash, 97, Slash, 98, Slash>>, <<97, Slash, 98, Slash, 99>>,
     <<101, Slash, 102>>, <<100, 42>>, <<>>}

InitCone ==
    /\ MidxIdle
    /\ IndexIdle
    /\ ConeIdle

NextCone ==
    \/ \E line \in LineUniverse : SetArgument(line)
    \/ \E refresh_workdir, dirs_ok, lock_ok \in BOOLEAN : WpBegin(refresh_workdir, dirs_ok, lock_ok)
    \/ \E lock_ok \in BOOLEAN : UwdLock(lock_ok)
    \/ \E update \in UpdateSparsityResults : UwdUpdate(update)
    \/ WpFail
    \/ \E commit_ok \in BOOLEAN : WpWrite(commit_ok)

SpecCone == InitCone /\ [][NextCone]_vars

----------------------------------------------------------------------------
(* Properties of the builder and the reader, checked under Spec *)

\* the number of OIDs the OID Lookup chunk of a built file holds
LookupCount(mg) == (mg.chunk_object_offsets - mg.chunk_oid_lookup) \div MIDX_OID_LEN

\* the offset word of the Object Offsets record n
OffsetWordAt(mg, n) == Bytes(mg.data, mg.chunk_object_offsets + 8 * n + 4, 4)

\* the number of entries the Large Offsets chunk of a built file holds
LargeCount(mg) ==
    IF mg.chunk_large_offsets = NULL THEN 0
    ELSE (mg.chunk_pack_names - mg.chunk_large_offsets) \div 8

AtLeast2p31(off) == \E k \in 1..4 : off[k] # 0 \/ off[5] >= 128
AtLeast2p32(off) == \E k \in 1..4 : off[k] # 0

\* C1: when a built file is read back, the reader holds exactly the input OIDs
\* in ascending order, and for each of them bsearch_midx finds it and
\* nth_midxed_object_details returns the post-sort id of the entry's pack (the
\* id whose name in Pack Names is the entry's original pack name) and the
\* entry's original offset.
C1_RoundTrip ==
    rpc = "ok" =>
        /\ m.num_objects = Len(objects)
        /\ LookupCount(m) = Len(objects)
        /\ \A i \in 1..Len(objects) :
            LET b == bsearch_midx(m, objects[i].oid)
                d == nth_midxed_object_details(m, b.pos)
            IN  /\ OidAt(m, i - 1) = objects[i].oid
                /\ b.found = 1
                /\ b.pos = i - 1
                /\ ~d.null
                /\ d.pack_int_id < m.num_packs
                /\ m.pack_names[d.pack_int_id + 1] = w.arg_names[objects[i].pack_int_id + 1]
                /\ d.offset = objects[i].offset

C1_Witness ==
    /\ rpc = "ok"
    /\ Len(objects) = 2
    /\ w.arg_names = <<PackName2, PackName1>>
    /\ objects[1].pack_int_id = 0
    /\ objects[2].pack_int_id = 1
    /\ objects[1].offset = Off100000000
    /\ lk # NoLookup
    /\ lk.found = 1

\* the Object Offsets word of entry n is an escape: the high bit is set, the low
\* 31 bits index the Large Offsets chunk, and the entry read there, also through
\* nth_midxed_object_details, is the offset
EscapeOk(mg, n, off) ==
    LET word == OffsetWordAt(mg, n)
    IN  /\ word[1] >= 128
        /\ mg.chunk_large_offsets # NULL
        /\ U32(ClearHighBit(word)) < LargeCount(mg)
        /\ Bytes(mg.data, mg.chunk_large_offsets + 8 * U32(ClearHighBit(word)), 8) = off
        /\ nth_midxed_object_details(mg, n).offset = off

\* the word is the literal offset, with the high bit clear
LiteralOk(mg, n, off) ==
    LET word == OffsetWordAt(mg, n)
    IN  /\ word[1] < 128
        /\ Zeros(4) \o word = off
        /\ nth_midxed_object_details(mg, n).offset = off

\* C5 as stated: in every completed file, each entry whose offset is >= 2^31
\* is stored as a high-bit-set index into the Large Offsets chunk that reads
\* back as the offset, and each smaller offset as the literal with the high bit
\* clear.
C5_EscapeFrom2p31 ==
    rpc = "ok" =>
        \A i \in 1..Len(objects) :
            IF AtLeast2p31(objects[i].offset)
            THEN EscapeOk(m, i - 1, objects[i].offset)
            ELSE LiteralOk(m, i - 1, objects[i].offset)

\* C5 amended: nth_midxed_object_details reproduces every offset; when some
\* offset of the input exceeds 2^32 - 1 the entries are stored as C5 states;
\* when none does, the file has no Large Offsets chunk and every word is the
\* low 32 bits of the offset, high bit included.
C5_EscapeWhenNeeded ==
    rpc = "ok" =>
        \A i \in 1..Len(objects) :
            /\ nth_midxed_object_details(m, i - 1).offset = objects[i].offset
            /\ IF \E j \in 1..Len(objects) : AtLeast2p32(objects[j].offset)
               THEN IF AtLeast2p31(objects[i].offset)
                    THEN EscapeOk(m, i - 1, objects[i].offset)
                    ELSE LiteralOk(m, i - 1, objects[i].offset)
               ELSE /\ m.chunk_large_offsets = NULL
                    /\ OffsetWordAt(m, i - 1) = SubSeq(objects[i].offset, 5, 8)

C5_Witness ==
    /\ rpc = "ok"
    /\ Len(objects) = 2
    /\ objects[1].offset = Off100000000
    /\ objects[2].offset = Off80000000
    /\ OffsetWordAt(m, 1) = <<128, 0, 0, 1>>

\* the input holds the same OID twice, and nothing else is wrong with it
DuplicateInput ==
    /\ core_midx
    /\ DistinctNames(pack_names)
    /\ \A i \in 1..(Len(objects) - 1) : oidcmp(objects[i].oid, objects[i + 1].oid) <= 0
    /\ \E i \in 1..(Len(objects) - 1) : objects[i].oid = objects[i + 1].oid

\* C6: when the input holds two entries with the same OID, write_midx_file
\* completes without aborting, the OID appears once in the file, the entry
\* recorded for it is the one with the older pack-mtime, and the reader
\* reports one object fewer than the input has entries.
C6_DuplicatesCollapsed ==
    DuplicateInput =>
        /\ wpc # "bug"
        /\ rpc = "ok" =>
            /\ m.num_objects = Len(objects) - 1
            /\ \A i \in 1..(Len(objects) - 1) :
                objects[i].oid = objects[i + 1].oid =>
                    LET b == bsearch_midx(m, objects[i].oid)
                        older == IF objects[i].pack_mtime <= objects[i + 1].pack_mtime
                                 THEN objects[i] ELSE objects[i + 1]
                    IN  /\ b.found = 1
                        /\ m.pack_names[nth_midxed_object_details(m, b.pos).pack_int_id + 1]
                               = w.arg_names[older.pack_int_id + 1]

\* C7: in every completed file, for every i in 0..255 the i-th fan-out entry is
\* the number of distinct OIDs of OID Lookup whose first byte is <= i, and
\* entry 255 is the number of distinct OIDs, which is the reader's num_objects.
C7_FanoutCounts ==
    rpc = "ok" =>
        LET oids(i) == {OidAt(m, k) : k \in {n \in 0..(LookupCount(m) - 1) : OidAt(m, n)[1] <= i}}
        IN  /\ \A i \in 0..255 : FanoutAt(m, i) = Cardinality(oids(i))
            /\ FanoutAt(m, 255) = Cardinality(oids(255))
            /\ m.num_objects = Cardinality(oids(255))
            /\ LookupCount(m) = Len(objects)

C7_Witness ==
    /\ rpc = "ok"
    /\ Len(objects) = 2
    /\ objects[1].oid[1] = objects[2].oid[1]
    /\ FanoutAt(m, 169) = 0
    /\ FanoutAt(m, 170) = 2

\* some OID of the input is followed by a smaller one
OutOfOrder(objs) ==
    \E i \in 1..(Len(objs) - 1) : oidcmp(objs[i].oid, objs[i + 1].oid) > 0

RECURSIVE PackNameStrings(_, _)
PackNameStrings(mg, i) ==
    IF i > mg.num_packs THEN <<>>
    ELSE <<StringAt(mg.data, mg.chunk_pack_names
                             + U32(Bytes(mg.data, mg.chunk_pack_lookup + 4 * (i - 1), 4)))>>
            \o PackNameStrings(mg, i + 1)

\* C8: in every completed file OID Lookup is strictly ascending and Pack Names
\* is strictly ascending; an input with out-of-order OIDs or with a repeated
\* pack name makes the builder abort instead of completing a file.
C8_StrictOrders ==
    /\ rpc = "ok" =>
        /\ \A n \in 0..(LookupCount(m) - 2) : oidcmp(OidAt(m, n), OidAt(m, n + 1)) < 0
        /\ \A i \in 1..(m.num_packs - 1) :
              strcmp(PackNameStrings(m, 1)[i], PackNameStrings(m, 1)[i + 1]) < 0
        /\ Len(Bytes(m.data, m.chunk_pack_names, m.data_len - GIT_MAX_RAWSZ - m.chunk_pack_names))
              = w.total_name_len
    /\ (core_midx /\ (OutOfOrder(objects) \/ ~DistinctNames(pack_names))) =>
        /\ wpc \notin {"rename", "done"}
        /\ wpc \notin {"start", "write"} => wpc = "bug"

C8_Witness ==
    /\ wpc = "bug"
    /\ ~DistinctNames(pack_names)
    /\ StrictlyAscending(objects)
    /\ Len(objects) = 2

----------------------------------------------------------------------------
(* Properties of the readers of damaged files, checked under SpecRead *)

\* the damage of each kind the loader is to refuse
RefusedKinds == {"short", "magic", "version", "hash_len"} \cup DOMAIN DropKinds

\* C9: load_midxed_git_one fails and returns no reader for a file shorter than
\* the minimum size, a wrong magic, a wrong version, a hash length other than
\* 20, and a chunk table lacking any one of Pack-Name Lookup, Pack Names, OID
\* Fanout, OID Lookup, Object Offsets.
C9_LoaderRefuses ==
    (rpc # "none" /\ corrupted.kind \in RefusedKinds) =>
        /\ rpc \in {"die", "absent"}
        /\ m = NoReader

\* the stored trailing hash of the file differs from the hash of the bytes before it
BadTrailingHash(data) ==
    /\ Len(data) >= GIT_MAX_RAWSZ
    /\ HashOf(SubSeq(data, 1, Len(data) - GIT_MAX_RAWSZ))
           # SubSeq(data, Len(data) - GIT_MAX_RAWSZ + 1, Len(data))

PresentViolations(mg, disk) ==
    LET readable == /\ mg.hash_len = MIDX_OID_LEN
                    /\ mg.chunk_oid_lookup # NULL
                    /\ mg.chunk_object_offsets # NULL
    IN  {"checksum" : x \in {d \in {mg.data} : BadTrailingHash(d)}}
        \cup {"hash version" : x \in {v \in {mg.hash_version} : v # MIDX_OID_VERSION}}
        \cup {"hash length" : x \in {v \in {mg.hash_len} : v # MIDX_OID_LEN}}
        \cup {"missing OID Lookup" : x \in {v \in {mg.chunk_oid_lookup} : v = NULL}}
        \cup {"missing Object Offset" : x \in {v \in {mg.chunk_object_offsets} : v = NULL}}
        \cup {"failed to prepare pack" :
                  k \in {i \in 1..mg.num_packs : mg.pack_names[i] \notin disk}}
        \cup {"order" : k \in {i \in 1..(mg.num_objects - 1) :
                                  readable /\ oidcmp(OidAt(mg, i - 1), OidAt(mg, i)) >= 0}}
        \cup {"pack-int-id" :
                  k \in {i \in 0..(mg.num_objects - 1) :
                            readable /\ nth_midxed_object_details(mg, i).pack_int_id >= mg.num_packs}}

\* C11: every run of midx_verify on a file it can map reports every
\* violation present in the file, of whatever kind, and returns nonzero
\* exactly when it reported at least one violation in that run.
C11_ReportsEvery ==
    [][(MidxVerify(w.ret) /\ vres'.status = "ok" /\ w.ret \in DOMAIN fs) =>
          /\ PresentViolations(LoadMidxedGitOne(fs, w.ret).midx, disk_packs) \subseteq vres'.reports
          /\ (vres'.ret # 0) <=> (vres'.reports # {})]_vars

\* some fan-out entry differs from the number of OIDs of OID Lookup whose
\* first byte is at most its index, or two consecutive OIDs do not ascend
FanoutOrOrderViolation(mg) ==
    \/ \E i \in 0..255 :
          FanoutAt(mg, i) # Cardinality({k \in 0..(mg.num_objects - 1) : OidAt(mg, k)[1] <= i})
    \/ \E k \in 1..(mg.num_objects - 1) : oidcmp(OidAt(mg, k - 1), OidAt(mg, k)) >= 0

\* C12: midx_verify on a mapped file with a wrong fan-out entry or with two
\* consecutive OIDs out of strict ascending order reports a violation and
\* returns nonzero.
C12_FanoutAndOrderReported ==
    (/\ vres.ran /\ vres.name = w.ret /\ vres.status = "ok" /\ w.ret \in DOMAIN fs
     /\ LoadMidxedGitOne(fs, w.ret).midx.hash_len = MIDX_OID_LEN
     /\ LoadMidxedGitOne(fs, w.ret).midx.chunk_oid_lookup # NULL
     /\ FanoutOrOrderViolation(LoadMidxedGitOne(fs, w.ret).midx)) =>
        /\ vres.reports # {}
        /\ vres.ret # 0

----------------------------------------------------------------------------
(* Properties of the registry and its pack slots, checked under SpecLookup *)

\* the OID is recorded in a reader of the registry, and the pack recorded for
\* it cannot be used: it is no longer in the directory, and the slot of its id
\* holds no handle with an open descriptor
StaleIn(oid, chain, disk) ==
    \E k \in 1..Len(chain) :
        LET b == bsearch_midx(chain[k], oid)
            id == nth_midxed_object_details(chain[k], b.pos).pack_int_id
        IN  /\ b.found = 1
            /\ chain[k].pack_names[id + 1] \notin disk
            /\ ~chain[k].packs[id + 1].fd_open

\* C4: a fill_pack_entry_midx call for an OID recorded in a loaded MIDX whose
\* pack can no longer be opened, or is no longer valid, returns 0 and does not
\* end the process, whatever the state of the reader and of its pack slots.
C4_StalePackDeclined ==
    [][\A oid \in OidUniverse :
          (FillPackEntryMidx(oid) /\ StaleIn(oid, midxed_git, disk_packs)) =>
              /\ lk' = [op |-> "fill", oid |-> oid, ret |-> 0]
              /\ proc' = "run"]_vars

\* a lookup declined for a pack removed after its handle was memoized and its
\* descriptor closed
C4_Witness ==
    /\ lk.op = "fill"
    /\ lk.ret = 0
    /\ proc = "run"
    /\ StaleIn(lk.oid, midxed_git, disk_packs)
    /\ \E id \in 1..midxed_git[1].num_packs :
          /\ ~midxed_git[1].packs[id].null
          /\ midxed_git[1].packs[id].name \notin disk_packs
          /\ \E i \in 1..Len(objects) :
                /\ objects[i].oid = lk.oid
                /\ w.arg_names[objects[i].pack_int_id + 1] = midxed_git[1].packs[id].name

----------------------------------------------------------------------------
(* Properties of the sparse index, checked under SpecSparse *)

\* the entries an index holds, without the unused tail of its array
Entries(is) == SubSeq(is.cache, 1, is.cache_nr)

\* an entry that keeps its directory from being collapsed
Uncollapsible(ce) ==
    \/ ce.stage # 0
    \/ S_ISGITLINK(ce.mode)
    \/ ~ ce.skip_worktree

\* a run of convert_to_sparse that converts a full index
Converts ==
    /\ \E cache_tree_ok \in BOOLEAN : ConvertToSparse(cache_tree_ok)
    /\ ~ istate.sparse_index
    /\ istate'.sparse_index

\* C2: when convert_to_sparse converts a full index, every entry of the
\* full index that has a nonzero stage, is a gitlink or lacks the
\* skip-worktree bit is an entry of the result, unchanged, and no
\* sparse-directory entry of the result stands for a directory above it.
C2_UncollapsibleKept ==
    [][Converts =>
         \A k \in 1..istate.cache_nr :
            Uncollapsible(istate.cache[k]) =>
               /\ \E j \in 1..istate'.cache_nr : istate'.cache[j] = istate.cache[k]
               /\ \A j \in 1..istate'.cache_nr :
                     S_ISSPARSEDIR(istate'.cache[j]) =>
                        ~ HasPrefix(istate.cache[k].name, istate'.cache[j].name)]_vars

\* a converted index with a sparse-directory entry, from a full index
\* that had a gitlink and an entry without the skip-worktree bit in a
\* directory outside the cone
C2_Witness ==
    /\ sres.op = "convert_to_sparse"
    /\ istate.sparse_index
    /\ \E j \in 1..istate.cache_nr : S_ISSPARSEDIR(istate.cache[j])
    /\ \E k \in 1..Len(full0) : S_ISGITLINK(full0[k].mode) /\ SlashAfter(full0[k].name, 0) # 0
    /\ \E k \in 1..Len(full0) : ~ full0[k].skip_worktree /\ SlashAfter(full0[k].name, 0) # 0
    /\ path_matches_pattern_list(<<98, Slash>>, istate.sparse_checkout_patterns) = "NOT_MATCHED"

\* the fields of an entry that the expansion gives back
EntryFields(ce) == <<ce.name, ce.mode, ce.oid, ce.skip_worktree, ce.stage>>

FieldsOf(entries) == [k \in 1..Len(entries) |-> EntryFields(entries[k])]

\* C3: an index that was full, was converted by convert_to_sparse and
\* then expanded by ensure_full_index has the entries it had when full:
\* the same paths, modes, OIDs, skip-worktree bits and stages in the same
\* order.
C3_RoundTrip ==
    (sres.op = "ensure_full_index" /\ ~ istate.sparse_index /\ istate.drop_cache_tree) =>
        FieldsOf(Entries(istate)) = FieldsOf(full0)

\* an expanded index that has the entries of scenario S4 again, after a
\* conversion that had collapsed a directory (a converted index drops its
\* filesystem-monitor state and its cache tree holds the collapsed span)
C3_Witness ==
    /\ sres.op = "ensure_full_index"
    /\ ~ istate.sparse_index
    /\ istate.drop_cache_tree
    /\ istate.cache_tree.entry_count = 4
    /\ path_matches_pattern_list(<<98, Slash>>, istate.sparse_checkout_patterns) = "NOT_MATCHED"
    /\ Entries(istate) = IndexS4

\* the index holds a sparse-directory entry
HasSparseDir(is) == \E k \in 1..is.cache_nr : S_ISSPARSEDIR(is.cache[k])

\* C13: between the calls of convert_to_sparse, ensure_full_index and
\* expand_to_path, the sparse flag of the index is set if and only if its
\* entry array holds at least one sparse-directory entry.
C13_FlagIffSparseDir ==
    (xp.pc = "idle" /\ efi.pc = "idle") => (istate.sparse_index <=> HasSparseDir(istate))

\* C14: convert_to_sparse on an index that is already sparse returns 0 and
\* leaves the whole index as it was: entry array, entry count, sparse flag,
\* cache tree and filesystem-monitor state.
C14_SparseNoOp ==
    [][((\E cache_tree_ok \in BOOLEAN : ConvertToSparse(cache_tree_ok)) /\ istate.sparse_index) =>
          /\ sres'.ret = 0
          /\ istate' = istate]_vars

\* convert_to_sparse has returned at its first test on an index that is
\* sparse and holds a sparse-directory entry
C14_Witness ==
    /\ sres.op = "convert_to_sparse"
    /\ sres.skipped
    /\ sres.ret = 0
    /\ istate.sparse_index
    /\ HasSparseDir(istate)
    /\ ~ istate.split_index

\* C15: an expand_to_path call made while another one is running returns at
\* once and changes neither the index, the repository settings, the running
\* expansion nor the guard; and whenever no expand_to_path call is running,
\* whichever way the last one returned, the guard is clear.
C15_GuardedReentry ==
    /\ [][((\E path \in ExpandPathUniverse : ExpandToPath(path)) /\ in_expand_to_path) =>
            /\ istate' = istate
            /\ repo' = repo
            /\ efi' = efi
            /\ in_expand_to_path' = in_expand_to_path
            /\ xp'.pc = xp.pc]_vars
    /\ [](xp.pc = "idle" => ~ in_expand_to_path)

\* a call of expand_to_path that expanded the index and was re-entered on
\* the way is about to return
C15_Witness ==
    /\ xp.pc = "cleanup"
    /\ xp.nested
    /\ in_expand_to_path
    /\ ~ istate.sparse_index

\* the path lies under a sparse-directory entry of the index
UnderSparseDir(is, path) ==
    \E k \in 1..is.cache_nr :
        /\ S_ISSPARSEDIR(is.cache[k])
        /\ Len(is.cache[k].name) < Len(path)
        /\ HasPrefix(path, is.cache[k].name)

\* C16: expand_to_path on a sparse index, for a path that is not an entry
\* and lies under a sparse-directory entry, goes on to the full expansion,
\* wherever that entry sits in the array and whatever follows it; and the
\* expansion leaves a full index that holds every blob path under each
\* sparse directory it had.
C16_ExpandsUnderSparseDir ==
    /\ [][(/\ ExpandLookup
            /\ ~ index_file_exists(istate.cache, istate.cache_nr, xp.path)
            /\ UnderSparseDir(istate, xp.path)) => xp'.pc = "expand"]_vars
    /\ [][(EfiInstall /\ xp.pc = "expand") =>
            /\ ~ istate'.sparse_index
            /\ ~ HasSparseDir(istate')
            /\ \A k \in 1..istate.cache_nr : S_ISSPARSEDIR(istate.cache[k]) =>
                  LET under == read_tree_recursive(istate.cache[k].oid, istate.cache[k].name)
                  IN \A j \in 1..Len(under) :
                        index_file_exists(istate'.cache, istate'.cache_nr, under[j].name)]_vars

\* C18: while ensure_full_index runs and the index still points at the
\* previous entry array, no entry of that array has been released.
C18_NoEarlyRelease ==
    efi.pc = "loop" => efi.discarded = {}

\* a step of convert_to_sparse that leaves the entry array, the entry count
\* and the sparse flag as they were
ArrayAndFlagKept ==
    /\ Entries(istate') = Entries(istate)
    /\ istate'.cache_nr = istate.cache_nr
    /\ istate'.sparse_index = istate.sparse_index

\* C19: convert_to_sparse returns an error only when the loaded pattern list
\* is not in cone mode; on every other failure (index sparse already or
\* split, sparse checkout or cone mode off, sparse-index setting off,
\* cache-tree update failed) it returns 0; and a call that does not convert
\* leaves the entry array and the sparse flag as they were.
C19_ErrorOnlyNonCone ==
    [][(\E cache_tree_ok \in BOOLEAN : ConvertToSparse(cache_tree_ok)) =>
          /\ sres'.ret # 0 => ~ istate'.sparse_checkout_patterns.use_cone_patterns
          /\ (sres'.ret # 0 \/ ~ istate'.sparse_index) => ArrayAndFlagKept]_vars

\* C19, amended: convert_to_sparse returns an error only when the loaded
\* pattern list is not in cone mode or the cache-tree update failed; it
\* returns 0 when the index is sparse already or split, when sparse checkout
\* or cone mode is off and when the sparse-index setting is off; and a call
\* that does not convert leaves the entry array and the sparse flag as they
\* were.
C19_ErrorNonConeOrCacheTree ==
    [][\A cache_tree_ok \in BOOLEAN : ConvertToSparse(cache_tree_ok) =>
          /\ sres'.ret # 0 =>
                \/ ~ istate'.sparse_checkout_patterns.use_cone_patterns
                \/ ~ cache_tree_ok
          /\ (\/ istate.sparse_index
              \/ istate.split_index
              \/ ~ repo.core_apply_sparse_checkout
              \/ ~ repo.core_sparse_checkout_cone
              \/ ~ repo'.settings_sparse_index) => sres'.ret = 0
          /\ (sres'.ret # 0 \/ ~ istate'.sparse_index) => ArrayAndFlagKept]_vars

\* convert_to_sparse has returned an error for a failed cache-tree update on
\* a full index with entries and a cone-mode pattern list
C19_Witness ==
    /\ sres.op = "convert_to_sparse"
    /\ sres.ret = -1
    /\ sres.warning = "unable to update cache-tree, staying full"
    /\ istate.sparse_checkout_patterns.use_cone_patterns
    /\ ~ istate.sparse_index
    /\ istate.cache_nr > 0

\* the content is a whole file: it ends in the hash of all bytes before it
CompleteFile(data) ==
    /\ Len(data) >= MIDX_MIN_SIZE
    /\ SubSeq(data, Len(data) - GIT_MAX_RAWSZ + 1, Len(data))
         = HashOf(SubSeq(data, 1, Len(data) - GIT_MAX_RAWSZ))

\* the names under which a reader opens a MIDX: midx-<hex>.midx and the
\* name the caller gave
FinalNames(files) == {n \in DOMAIN files : n.kind = "midx" \/ n = midx_name}

\* C17: before the last step of a write_midx_file run, no file exists under
\* a name a reader opens (midx-<hex>.midx or the name the caller gave) with
\* incomplete content, and a file appears under such a name only by the
\* rename of the last step, with the name derived from the hash and with
\* the name given by the caller alike.
C17_NoPartialFinalFile ==
    /\ [](wpc # "done" => \A n \in FinalNames(fs) : CompleteFile(fs[n]))
    /\ [][\A n \in FinalNames(fs') \ DOMAIN fs : WmfFinish /\ CompleteFile(fs'[n])]_vars

\* C17, amended: when the caller gives no name, before the last step of
\* a write_midx_file run no midx-<hex>.midx file exists with incomplete
\* content, and the complete file appears under its hash-derived name only
\* by the rename of the last step. When the caller gives the name, the file
\* is created empty under that name before anything is written and is
\* completed in place, without a rename.
C17_RenameOnlyForHashName ==
    /\ [](wpc # "done" => \A n \in DOMAIN fs : n.kind = "midx" => CompleteFile(fs[n]))
    /\ [][\A n \in DOMAIN fs' \ DOMAIN fs :
            n.kind = "midx" => (WmfFinish /\ w.rename_needed /\ CompleteFile(fs'[n]))]_vars
    /\ []((wpc = "write" /\ midx_name # NoName) =>
            (midx_name \in DOMAIN fs /\ fs[midx_name] = <<>>))
    /\ [][(WmfFinish /\ ~ w.rename_needed) => fs' = fs]_vars

\* a run without a given name has renamed the complete file of a pack with
\* objects to its hash-derived name
C17_Witness ==
    /\ wpc = "done"
    /\ core_midx
    /\ midx_name = NoName
    /\ objects # <<>>
    /\ MidxFileName(w.final_hash) \in DOMAIN fs
    /\ CompleteFile(fs[MidxFileName(w.final_hash)])
    /\ TmpName \notin DOMAIN fs

\* write_midx_file has written the whole file
FileWritten == core_midx /\ wpc \in {"rename", "done"}

\* the file write_midx_file has written, under the name it has at the time
WrittenData == IF wpc = "rename" THEN fs[w.fname] ELSE fs[w.ret]

\* the chunk table of the written file: it has num_chunks + 1 entries, each
\* recorded offset is the position at which the chunk's first byte was
\* written, and the last entry has the id 0 and the offset of the trailing
\* hash
ChunkTableExact(data) ==
    LET num_chunks == data[12]
    IN /\ num_chunks = w.num_chunks
       /\ ChunkOffsetAt(data, 0) = MIDX_HEADER_SIZE + MIDX_CHUNKLOOKUP_WIDTH * (num_chunks + 1)
       /\ Len(w.starts) = num_chunks + 1
       /\ \A i \in 0..num_chunks : ChunkOffsetAt(data, i) = w.starts[i + 1]
       /\ Bytes(data, MIDX_HEADER_SIZE + MIDX_CHUNKLOOKUP_WIDTH * num_chunks, 4) = Zeros(4)
       /\ ChunkOffsetAt(data, num_chunks) = Len(data) - GIT_MAX_RAWSZ

\* C20: in every file write_midx_file completes, the file for no packs and
\* no objects included, the chunk table has num_chunks + 1 entries, each
\* recorded offset is the position at which the chunk's first byte is
\* written, the last entry has id 0 and the offset of the trailing hash, and
\* the recorded offsets are strictly increasing.
C20_ChunkTableStrict ==
    FileWritten =>
          /\ ChunkTableExact(WrittenData)
          /\ \A i \in 1..WrittenData[12] :
                ChunkOffsetAt(WrittenData, i - 1) < ChunkOffsetAt(WrittenData, i)

\* C20, amended: in every file write_midx_file completes, the file for no
\* packs and no objects included, the chunk table has num_chunks + 1
\* entries, each recorded offset is the position at which the chunk's first
\* byte is written, the last entry has id 0 and the offset of the trailing
\* hash, and the recorded offsets never decrease; they are strictly
\* increasing exactly when there is at least one pack and one object.
C20_ChunkTableMonotone ==
    FileWritten =>
          /\ ChunkTableExact(WrittenData)
          /\ \A i \in 1..WrittenData[12] :
                ChunkOffsetAt(WrittenData, i - 1) <= ChunkOffsetAt(WrittenData, i)
          /\ (pack_names # <<>> /\ objects # <<>>) <=>
                \A i \in 1..WrittenData[12] :
                   ChunkOffsetAt(WrittenData, i - 1) < ChunkOffsetAt(WrittenData, i)

\* the file for a pack without objects has been written: its OID Lookup and
\* Object Offsets chunks are empty and share their offset
C20_Witness ==
    /\ FileWritten
    /\ pack_names # <<>>
    /\ objects = <<>>
    /\ ChunkTableExact(WrittenData)
    /\ ChunkOffsetAt(WrittenData, 2) = ChunkOffsetAt(WrittenData, 3)

\* the written file has a Large Offsets chunk and the chunk count 6
HasLargeOffsets(data) ==
    /\ data[12] = 6
    /\ ChunkPointer(data, data[12], MIDX_CHUNKID_LARGEOFFSETS) # NULL

\* the written file has no Large Offsets chunk and the chunk count 5
HasNoLargeOffsets(data) ==
    /\ data[12] = 5
    /\ ChunkPointer(data, data[12], MIDX_CHUNKID_LARGEOFFSETS) = NULL

\* C21: the file write_midx_file writes has the Large Offsets chunk and the
\* chunk count 6, instead of 5, if and only if at least one object's offset
\* exceeds 2^31 - 1.
C21_LargeOffsetsFrom2p31 ==
    FileWritten =>
        IF \E i \in 1..Len(objects) : AtLeast2p31(objects[i].offset)
        THEN HasLargeOffsets(WrittenData)
        ELSE HasNoLargeOffsets(WrittenData)

\* C21, amended: the file write_midx_file writes has the Large Offsets chunk
\* and the chunk count 6, instead of 5, if and only if at least one object's
\* offset exceeds 2^32 - 1; offsets from 2^31 to 2^32 - 1 alone do not bring
\* the chunk.
C21_LargeOffsetsFrom2p32 ==
    FileWritten =>
        IF \E i \in 1..Len(objects) : AtLeast2p32(objects[i].offset)
        THEN HasLargeOffsets(WrittenData)
        ELSE HasNoLargeOffsets(WrittenData)

\* a file has been written for an object at offset 2^31 and none above
\* 2^32 - 1: it has five chunks
C21_Witness ==
    /\ FileWritten
    /\ \E i \in 1..Len(objects) : objects[i].offset = Off80000000
    /\ \A i \in 1..Len(objects) : ~ AtLeast2p32(objects[i].offset)
    /\ HasNoLargeOffsets(WrittenData)

\* the number of OIDs of the reader's OID Lookup that are below the OID
OidsBelow(mg, oid) ==
    Cardinality({n \in 0..(mg.num_objects - 1) : oidcmp(OidAt(mg, n), oid) < 0})

\* C22: on the reader of a built file (OIDs sorted and distinct, fan-out
\* right), for every OID, bsearch_midx returns 1 with the position of the
\* OID when the file holds it, and otherwise returns 0 with the position of
\* the first OID greater than it, num_objects when there is none.
C22_BsearchExact ==
    [][((\E oid \in OidUniverse : LookupOid(oid)) /\ lk'.op = "lookup") =>
          LET held == \E n \in 0..(m.num_objects - 1) : OidAt(m, n) = lk'.oid
          IN /\ lk'.found = IF held THEN 1 ELSE 0
             /\ lk'.pos = OidsBelow(m, lk'.oid)
             /\ lk'.pos <= m.num_objects
             /\ held => OidAt(m, lk'.pos) = lk'.oid
             /\ (~ held /\ lk'.pos < m.num_objects) => oidcmp(OidAt(m, lk'.pos), lk'.oid) > 0]_vars

\* a lookup has missed between the two OIDs of a file, which have different
\* first bytes
C22_Witness ==
    /\ rpc = "ok"
    /\ lk # NoLookup
    /\ lk.op = "lookup"
    /\ lk.found = 0
    /\ lk.pos = 1
    /\ m.num_objects = 2
    /\ OidAt(m, 0)[1] # OidAt(m, 1)[1]

\* the directory a given line names: the line without the blanks and slashes
\* at its ends, after one slash; the empty sequence for a line that names
\* none
DirOfLine(line) ==
    LET at == {k \in 1..Len(line) : line[k] # Slash /\ line[k] # 32}
    IN IF at = {} THEN <<>>
       ELSE <<Slash>> \o SubSeq(line, CHOOSE k \in at : \A j \in at : k <= j,
                                CHOOSE k \in at : \A j \in at : j <= k)

GivenDirs(args) == {DirOfLine(args[k]) : k \in 1..Len(args)} \ {<<>>}

\* the directories that properly contain the path
ProperAncestors(path) == {SubSeq(path, 1, k - 1) : k \in {j \in 2..Len(path) : path[j] = Slash}}

LiesUnderGiven(path, given) == \E g \in given : g \in ProperAncestors(path)

\* the sequence that lists the set in ascending order without duplicates
SortedWithoutDuplicates(set) ==
    CHOOSE seq \in [1..Cardinality(set) -> set] :
        \A i, j \in 1..Cardinality(set) : i < j => strcmp(seq[i], seq[j]) < 0

\* the file as described for the given directories, glob characters escaped
ConeFileFor(given) ==
    LET ancestors == SortedWithoutDuplicates(
                        {a \in UNION {ProperAncestors(g) : g \in given} :
                            a \notin given /\ ~ LiesUnderGiven(a, given)})
        dirs == SortedWithoutDuplicates({d \in given : ~ LiesUnderGiven(d, given)})
    IN <<<<Slash, 42>>, <<33, Slash, 42, Slash>>>>
         \o [i \in 1..(2 * Len(ancestors)) |->
               IF i % 2 = 1 THEN escaped_pattern(ancestors[(i + 1) \div 2]) \o <<Slash>>
               ELSE <<33>> \o escaped_pattern(ancestors[i \div 2]) \o <<Slash, 42, Slash>>]
         \o [i \in 1..Len(dirs) |-> escaped_pattern(dirs[i]) \o <<Slash>>]

\* C23: in cone mode, for any directories given to 'sparse-checkout set',
\* the file written is exactly: the lines '/*' and '!/*/'; then, for each
\* proper ancestor A of a given directory, sorted, without duplicates and
\* without any A that is given or lies under a given directory, the lines
\* 'A/' and '!A/*/'; then the line 'D/' for each given directory D that does
\* not lie under another given directory, sorted without duplicates.
C23_ConeFileExact ==
    (sc.pc = "returned" /\ sc.lk = "committed") => sc.file = ConeFileFor(GivenDirs(sc.args))

\* the file has been written for e/f, a/b/c and /a/b/, given in that order:
\* it holds /a/ and /e/ with their negations, then /a/b/ and /e/f/
C23_Witness ==
    /\ sc.pc = "returned"
    /\ sc.lk = "committed"
    /\ sc.args = <<<<101, Slash, 102>>, <<97, Slash, 98, Slash, 99>>, <<Slash, 97, Slash, 98, Slash>>>>
    /\ Len(sc.file) = 8
    /\ sc.file[3] = <<Slash, 97, Slash>>
    /\ sc.file[8] = <<Slash, 101, Slash, 102, Slash>>

\* C24: when update_working_directory has returned, the index lock it took
\* has been committed or rolled back; when write_patterns_to_sparse_checkout
\* has returned, so has the lock of the sparse-checkout file, and no lock is
\* held; and when the update of the working directory failed, the
\* sparse-checkout file has the content it had before.
C24_LocksReleased ==
    /\ sc.pc \in {"uwd returned", "returned"} =>
          (sc.call # 0 => sc.lock_file \in {"committed", "rolled back"})
    /\ sc.pc = "returned" =>
          /\ sc.lk \in {"committed", "rolled back"}
          /\ sc.lock_file # "held"
    /\ (sc.pc \in {"uwd returned", "uwd", "uwd locked", "returned"} /\ sc.result # 0) =>
          sc.file = InitialSparseCheckoutFile

\* write_patterns_to_sparse_checkout has returned the failure of the update
\* of the working directory, for directories that would have changed the
\* file: both locks are rolled back or committed and the file is as it was
C24_Witness ==
    /\ sc.pc = "returned"
    /\ sc.ret # 0
    /\ sc.call = 2
    /\ sc.lk = "rolled back"
    /\ sc.lock_file \in {"committed", "rolled back"}
    /\ GivenDirs(sc.args) # {}
    /\ sc.file = InitialSparseCheckoutFile

\* the directories of an index: the leading directories of its entries,
\* each with its trailing slash
DirsOfIndex(cache, nr) ==
    UNION {{SubSeq(cache[k].name, 1, s) :
               s \in {t \in 1..Len(cache[k].name) : cache[k].name[t] = Slash}} :
           k \in 1..nr}

\* a directory that lies outside the cone and holds only entries of stage
\* 0 that are no submodules and have the skip-worktree bit
Collapsible(cache, nr, pl, dir) ==
    /\ path_matches_pattern_list(dir, pl) = "NOT_MATCHED"
    /\ \A k \in 1..nr : HasPrefix(cache[k].name, dir) => ~ Uncollapsible(cache[k])

\* the collapsible directories with no collapsible directory above them
CollapsedDirs(cache, nr, pl) ==
    {dir \in DirsOfIndex(cache, nr) :
        /\ Collapsible(cache, nr, pl, dir)
        /\ \A up \in DirsOfIndex(cache, nr) :
              (up # dir /\ HasPrefix(dir, up)) => ~ Collapsible(cache, nr, pl, up)}

\* the positions of the full index that give an entry of the sparse index:
\* the entries under no collapsed directory and the first entry of each
\* collapsed directory
KeptPositions(cache, nr, pl) ==
    {k \in 1..nr :
        \A dir \in CollapsedDirs(cache, nr, pl) :
           HasPrefix(cache[k].name, dir) =>
              (k = 1 \/ ~ HasPrefix(cache[k - 1].name, dir))}

\* the sparse index expected of a full index: one directory entry for each
\* collapsed directory, every other entry as it was, in the order of the
\* full index
ExpectedSparse(cache, nr, pl) ==
    LET kept == KeptPositions(cache, nr, pl)
        at(j) == CHOOSE k \in kept : Cardinality({i \in kept : i <= k}) = j
    IN [j \in 1..Cardinality(kept) |->
           LET ce == cache[at(j)]
               dirs == {dir \in CollapsedDirs(cache, nr, pl) : HasPrefix(ce.name, dir)}
           IN IF dirs = {} THEN ce
              ELSE LET dir == CHOOSE d \in dirs : TRUE
                       span == SpanUnder(cache, 0, nr, dir)
                   IN [name |-> dir, mode |-> SPARSE_DIR_MODE,
                       oid |-> CacheTreeNode(cache, dir, at(j) - 1, at(j) - 1 + span).oid,
                       skip_worktree |-> TRUE, stage |-> 0]]

\* C25: when convert_to_sparse converts a full index, every directory
\* that lies outside the cone, holds only entries of stage 0 that are no
\* submodules and have the skip-worktree bit, and has no collapsed directory
\* above it, is replaced by exactly one sparse-directory entry, with the
\* path of the directory ending in a slash, the OID of the tree of its
\* cache-tree node and the skip-worktree bit; every entry outside the
\* collapsed directories is kept as it was, in the order of the full index.
C25_CollapseExact ==
    [][Converts =>
         LET pl == istate'.sparse_checkout_patterns
             expected == ExpectedSparse(istate.cache, istate.cache_nr, pl)
         IN /\ istate'.cache_nr = Len(expected)
            /\ Entries(istate') = expected
            /\ \A dir \in CollapsedDirs(istate.cache, istate.cache_nr, pl) :
                  /\ dir # <<>>
                  /\ dir[Len(dir)] = Slash
                  /\ Cardinality({j \in 1..istate'.cache_nr : istate'.cache[j].name = dir}) = 1]_vars

\* a converted index in which a directory below the top level was collapsed
\* while its parent was not, next to entries that were kept
C25_Witness ==
    /\ sres.op = "convert_to_sparse"
    /\ istate.sparse_index
    /\ \E j \in 1..istate.cache_nr :
          /\ S_ISSPARSEDIR(istate.cache[j])
          /\ istate.cache[j].name = DirBE \o <<Slash>>
          /\ istate.cache[j].skip_worktree
    /\ \E j \in 1..istate.cache_nr :
          /\ ~ S_ISSPARSEDIR(istate.cache[j])
          /\ HasPrefix(istate.cache[j].name, DirB \o <<Slash>>)
    /\ CollapsedDirs(full0, Len(full0), istate.sparse_checkout_patterns) # {}
    /\ Entries(istate) = ExpectedSparse(full0, Len(full0), istate.sparse_checkout_patterns)

\* C26: expand_to_path leaves the index as it was (the entry array, the
\* entry count and the sparse flag) when the path is already an entry of the
\* index, and also when no directory that contains the path is a
\* sparse-directory entry of the index.
C26_ExpandNoOp ==
    /\ [][(/\ ExpandLookup
            /\ \/ index_file_exists(istate.cache, istate.cache_nr, xp.path)
               \/ ~ UnderSparseDir(istate, xp.path)) => xp'.pc = "cleanup"]_vars
    /\ [][(ExpandLookup \/ ExpandCleanup) =>
            /\ istate'.cache = istate.cache
            /\ istate'.cache_nr = istate.cache_nr
            /\ istate'.sparse_index = istate.sparse_index]_vars

\* the part of C26 about a path that is an entry of the index
C26_EntryNoOp ==
    [][(/\ ExpandLookup
         /\ index_file_exists(istate.cache, istate.cache_nr, xp.path)) => xp'.pc = "cleanup"]_vars

\* the lookup of the OID in the reader resolves to the pack id
ResolvesTo(mg, oid, pack_int_id) ==
    /\ mg.chunk_oid_lookup # NULL
    /\ bsearch_midx(mg, oid).found # 0
    /\ mg.chunk_object_offsets # NULL
    /\ LET d == nth_midxed_object_details(mg, bsearch_midx(mg, oid).pos)
       IN ~ d.null /\ d.pack_int_id = pack_int_id

\* C27: over any sequence of lookups on one reader the pack of a pack id is
\* opened at most once: a slot that holds a handle keeps that handle in
\* every later step, a lookup changing at most whether its descriptor is
\* open, and a slot is filled only by a lookup that resolves to its pack
\* id, so the slot of a pack id no lookup resolved to stays empty.
C27_PackOpenedOnce ==
    [][\A k \in 1..Len(midxed_git) : \A id \in 1..Len(midxed_git[k].packs) :
          Len(midxed_git') = Len(midxed_git) =>
             LET slot == midxed_git[k].packs[id]
                 after == midxed_git'[k].packs[id]
             IN /\ ~ slot.null =>
                      /\ ~ after.null
                      /\ after.name = slot.name
                      /\ slot.fd_open /\ (\E oid \in OidUniverse : FillPackEntryMidx(oid))
                            => after = slot
                /\ (slot.null /\ ~ after.null) =>
                      \E oid \in OidUniverse :
                         /\ FillPackEntryMidx(oid)
                         /\ ResolvesTo(midxed_git[k], oid, id - 1)]_vars

\* a lookup answered from a memoized handle whose pack has since been
\* removed from the directory, on a reader of two packs whose other slot
\* is still empty
C27_Witness ==
    /\ lk.op = "fill"
    /\ lk.ret = 1
    /\ proc = "run"
    /\ lk.pack \notin disk_packs
    /\ Len(midxed_git) = 1
    /\ midxed_git[1].num_packs = 2
    /\ \E id \in 1..2 :
          /\ ~ midxed_git[1].packs[id].null
          /\ midxed_git[1].packs[id].name = lk.pack
          /\ midxed_git[1].packs[id].fd_open
          /\ midxed_git[1].packs[3 - id].null

\* C28: at every store of the in-place rewrite of convert_to_sparse_rec the
\* position written is not past the position of the first entry not yet
\* read (num_converted <= i), so no entry is overwritten before it has been
\* read; and every call returns at least 1 for a span that is not empty
\* and at most the length of the span.
C28_WriteBehindRead ==
    [][Converts =>
         LET ct == cache_tree_update(istate.cache, istate.cache_nr)
             r == convert_to_sparse_rec(istate.cache, 0, 0, istate.cache_nr, <<>>, ct,
                                        istate'.sparse_checkout_patterns)
         IN /\ r.cache = istate'.cache
            /\ \A wr \in r.writes : wr.num_converted <= wr.i
            /\ \A sp \in r.spans :
                  /\ sp.end > sp.start => sp.count >= 1
                  /\ sp.count <= sp.end - sp.start]_vars

\* a converted index in which a directory of several entries was collapsed
\* and an entry behind it was copied down to a lower position
C28_Witness ==
    /\ sres.op = "convert_to_sparse"
    /\ istate.sparse_index
    /\ istate.cache_nr < Len(full0)
    /\ \E j \in 1..(istate.cache_nr - 1) :
          /\ S_ISSPARSEDIR(istate.cache[j])
          /\ SpanUnder(full0, 0, Len(full0), istate.cache[j].name) >= 2
          /\ ~ S_ISSPARSEDIR(istate.cache[j + 1])
          /\ \E k \in (j + 2)..Len(full0) : full0[k] = istate.cache[j + 1]

\* C29: the value midx_verify returns depends only on the file it verifies
\* (with the packs of its directory): a run returns what a run on the same
\* file returns in a process that has verified nothing before, so a valid
\* MIDX gives 0 also after a run of the same process that reported
\* violations of another file, and two runs on the same file give the same
\* value.
C29_VerifyDependsOnFileOnly ==
    [][\A name \in {w.ret, MissingMidxName} :
          (MidxVerify(name) /\ vres'.status = "ok") =>
             vres'.ret = midx_verify(fs, name, 0, disk_packs).ret]_vars

\* C30: after any sequence of prepare_midxed_git_objdir and close_all_midx
\* calls the registry holds at most one reader for each pack directory;
\* a prepare call keeps every reader that is registered, and with a
\* midx-head that names a file which cannot be opened it neither ends the
\* process in a crash nor drops a registered reader; after close_all_midx
\* the registry is empty.
C30_RegistryKept ==
    /\ [](Len(midxed_git) <= 1)
    /\ [][\A obj_dir \in ObjDirUniverse, head_exists \in BOOLEAN :
             PrepareMidxedGitObjdir(obj_dir, head_exists) =>
                /\ proc' # "crash"
                /\ \A k \in 1..Len(midxed_git) :
                      \E j \in 1..Len(midxed_git') : midxed_git'[j] = midxed_git[k]]_vars
    /\ [][CloseAllMidx => midxed_git' = <<>>]_vars

\* the parts of C30 that do not involve a midx-head naming a file that
\* cannot be opened
C30_RegistryKeptWhenOpened ==
    /\ [](Len(midxed_git) <= 1)
    /\ [][\A obj_dir \in ObjDirUniverse, head_exists \in BOOLEAN :
             (PrepareMidxedGitObjdir(obj_dir, head_exists) /\ proc' = "run") =>
                \A k \in 1..Len(midxed_git) :
                   \E j \in 1..Len(midxed_git') : midxed_git'[j] = midxed_git[k]]_vars
    /\ [][CloseAllMidx => midxed_git' = <<>>]_vars

====
